---- MODULE Spec2Model ----
(***************************************************************************)
(* Multi-instance board state and the cross-surface drop handler of the    *)
(* kanban plugin: scope ids, the plugin's instance and StateManager        *)
(* registries, per-instance 'list-collapse' view state, and handleDrop     *)
(* (same-board reorder and cross-board transfer).                          *)
(*                                                                         *)
(* Strings are sequences of one-character strings.  Entity paths hold the  *)
(* 0-based indices of the program; sequences here are 1-based, so element  *)
(* k of an array is s[k + 1].                                              *)
(***************************************************************************)
EXTENDS Integers, Sequences, FiniteSets, TLC

VARIABLES
  boards,         \* file -> canonical Board (StateManager.state)
  stateManagers,  \* files that have a StateManager (plugin.stateManagers)
  registered,     \* instances held in the window registry (viewMap / embedMap)
  viewSettings,   \* instance -> its own 'list-collapse' view setting
  rendered,       \* file -> the Board as last painted (entities carry its paths)
  last,           \* record of the most recent handleDrop call (history)
  nDrops,         \* number of handleDrop calls so far
  probe,          \* inputs and result of the operation under test (ScopeSpec,
                  \* ViewStateSpec), the latest operation (LifecycleSpec, RendererSpec)
  managers,       \* the StateManager objects made so far, in order of construction
  pluginMap,      \* plugin.stateManagers.get(file): index into managers, 0 when absent
  disk,           \* the content of the file in the vault
  tasks,          \* instance -> where its load / registration stands, what it holds
  nEdits          \* number of board mutations so far

dropVars == <<boards, stateManagers, registered, viewSettings, rendered, last, nDrops>>

lifeVars == <<managers, pluginMap, disk, tasks, nEdits>>

vars == <<boards, stateManagers, registered, viewSettings, rendered, last, nDrops, probe, managers, pluginMap, disk, tasks, nEdits>>

(***************************************************************************)
(* Bounds                                                                  *)
(***************************************************************************)
\* handleDrop calls in one behaviour
MaxDrops == 2
\* longest document path (in characters) tried by the scope-id routing
MaxPathLen == 5

(***************************************************************************)
(* Scope ids                                                               *)
(***************************************************************************)
Sep == <<":", ":", ":">>

\* String.prototype.split(':::'): scan left to right, cut at each occurrence
\* of the separator, resume after it.
RECURSIVE SplitFrom(_, _, _)
SplitFrom(s, i, cur) ==
  IF i > Len(s) THEN <<cur>>
  ELSE IF i + 2 <= Len(s) /\ SubSeq(s, i, i + 2) = Sep
       THEN <<cur>> \o SplitFrom(s, i + 3, <<>>)
       ELSE SplitFrom(s, i + 1, Append(cur, s[i]))

Split(s) == SplitFrom(s, 1, <<>>)

\* const [, file] = scopeId.split(':::')  -- the SECOND segment, or undefined
SecondSegment(parts) ==
  IF Len(parts) >= 2 THEN [def |-> TRUE, val |-> parts[2]]
  ELSE [def |-> FALSE, val |-> <<>>]

FileOfScopeId(scopeId) == SecondSegment(Split(scopeId))

\* KanbanEmbed.id / KanbanLivePreviewEmbed.id
EmbedId(instanceId, path) == <<"e", "m", "b", "e", "d", "-">> \o instanceId \o Sep \o path

\* KanbanView.id
ViewId(leafId, path) == leafId \o Sep \o path

\* sourceFile === destinationFile
SameFile(dragScopeId, dropScopeId) ==
  FileOfScopeId(dragScopeId) = FileOfScopeId(dropScopeId)

(***************************************************************************)
(* Instances                                                               *)
(***************************************************************************)
DocX == <<"x">>
DocY == <<"y">>
Docs == {DocX, DocY}

Inst == {"v1", "e1", "e2"}

IsView(i) == i = "v1"

FileOf(i) == IF i = "e2" THEN DocY ELSE DocX

\* the generated instance id of an embed
InstanceIdOf(i) == IF i = "e1" THEN <<"1">> ELSE <<"2">>

IdOf(i) ==
  IF IsView(i) THEN ViewId(<<"l", "1">>, FileOf(i))
  ELSE EmbedId(InstanceIdOf(i), FileOf(i))

(***************************************************************************)
(* Board data                                                              *)
(***************************************************************************)
Null == [type |-> "null"]

Item(id, checked) == [type |-> "item", id |-> id, checked |-> checked]

Lane(id, complete, sorted, children) ==
  [type |-> "lane", id |-> id, complete |-> complete, sorted |-> sorted,
   children |-> children]

\* lanes: the board's children; collapse: data.settings['list-collapse'];
\* insertion: data.settings['new-card-insertion-method']; errors: whether
\* data.errors is non-empty
Board(lanes, collapse, insertion) ==
  [lanes |-> lanes, collapse |-> collapse, insertion |-> insertion, errors |-> FALSE]

Last(path) == path[Len(path)]

Parent(path) == SubSeq(path, 1, Len(path) - 1)

\* Array.prototype.splice(idx, 1) on a copy: nothing is removed past the end
SpliceOut(arr, idx) ==
  IF idx < Len(arr) THEN SubSeq(arr, 1, idx) \o SubSeq(arr, idx + 2, Len(arr))
  ELSE arr

\* Array.prototype.splice(idx, 0, e) on a copy: the start is clamped to the length
SpliceIn(arr, idx, e) ==
  LET at == IF idx < Len(arr) THEN idx ELSE Len(arr)
  IN SubSeq(arr, 1, at) \o <<e>> \o SubSeq(arr, at + 1, Len(arr))

getEntityFromPath(board, path) ==
  IF Len(path) = 0 THEN [type |-> "board", children |-> board.lanes]
  ELSE IF Len(path) > 2 \/ path[1] >= Len(board.lanes) THEN Null
  ELSE IF Len(path) = 1 THEN board.lanes[path[1] + 1]
  ELSE IF path[2] >= Len(board.lanes[path[1] + 1].children) THEN Null
  ELSE board.lanes[path[1] + 1].children[path[2] + 1]

Resolves(board, path) == getEntityFromPath(board, path) # Null

\* whether the container that holds position `path` exists in the board
ParentResolves(board, path) ==
  /\ Len(path) \in {1, 2}
  /\ Len(path) = 2 => path[1] < Len(board.lanes)

removeEntity(board, path) ==
  IF Len(path) = 1 THEN [board EXCEPT !.lanes = SpliceOut(@, path[1])]
  ELSE [board EXCEPT !.lanes[path[1] + 1].children = SpliceOut(@, path[2])]

insertEntity(board, path, entity) ==
  IF Len(path) = 1 THEN [board EXCEPT !.lanes = SpliceIn(@, path[1], entity)]
  ELSE [board EXCEPT !.lanes[path[1] + 1].children = SpliceIn(@, path[2], entity)]

\* the entity leaves `source` and enters at `destination`; a destination after
\* the source among the same siblings is shifted down by the removal
moveEntity(board, source, destination, entity) ==
  LET after == Parent(source) = Parent(destination) /\ Last(source) < Last(destination)
      dest  == IF after
               THEN Parent(destination) \o <<Last(destination) - 1>>
               ELSE destination
  IN insertEntity(removeEntity(board, source), dest, entity)

\* updateEntity(newBoard, destinationParentPath, { data: { $unset: ['sorted'] } })
updateEntityUnsetSorted(board, path) ==
  [board EXCEPT !.lanes[path[1] + 1].sorted = FALSE]

\* the item as it enters the destination container
maybeCompleteForMove(sourceBoard, sourcePath, destinationBoard, destinationPath, item) ==
  LET sourceParent      == getEntityFromPath(sourceBoard, Parent(sourcePath))
      destinationParent == getEntityFromPath(destinationBoard, Parent(destinationPath))
      oldShouldComplete == sourceParent.type = "lane" /\ sourceParent.complete
      newShouldComplete == destinationParent.type = "lane" /\ destinationParent.complete
  IN IF newShouldComplete THEN [item EXCEPT !.checked = TRUE]
     ELSE IF oldShouldComplete THEN [item EXCEPT !.checked = FALSE]
     ELSE item

RECURSIVE SumLens(_)
SumLens(lanes) ==
  IF lanes = <<>> THEN 0 ELSE Len(Head(lanes).children) + SumLens(Tail(lanes))

ItemCount(board) == SumLens(board.lanes)

LaneCount(board) == Len(board.lanes)

\* how many entities (lanes and items) of the board carry this id
Occurrences(board, id) ==
  Cardinality({l \in 1..Len(board.lanes) : board.lanes[l].id = id})
  + Cardinality({p \in (1..Len(board.lanes)) \X (1..SumLens(board.lanes)) :
       /\ p[2] <= Len(board.lanes[p[1]].children)
       /\ board.lanes[p[1]].children[p[2]].id = id})

(***************************************************************************)
(* Per-instance view state ('list-collapse')                               *)
(***************************************************************************)
Undefined == [def |-> FALSE, val |-> <<>>]

Defined(v) == [def |-> TRUE, val |-> v]

\* this.viewSettings[key] ?? stateManager?.getSetting(key)
getViewState(vs, bds, sms, i) ==
  IF i \notin Inst THEN Undefined
  ELSE IF vs[i].set THEN Defined(vs[i].collapse)
  ELSE IF FileOf(i) \in sms THEN Defined(bds[FileOf(i)].collapse)
  ELSE Undefined

\* the three updaters handleDrop builds, as data
MoveOp(from, to) == [kind |-> "move", from |-> from, to |-> to, val |-> FALSE]

RemoveOp(idx) == [kind |-> "remove", from |-> idx, to |-> idx, val |-> FALSE]

InsertOp(idx, val) == [kind |-> "insert", from |-> idx, to |-> idx, val |-> val]

\* newState.splice(to, 0, newState.splice(from, 1)[0]) / splice(idx, 1) /
\* splice(idx, 0, val).  A slot filled by splice(from, 1)[0] past the end holds
\* undefined, which reads as not collapsed.
ApplyOp(op, collapsedState) ==
  IF op.kind = "move"
  THEN SpliceIn(SpliceOut(collapsedState, op.from), op.to,
                IF op.from < Len(collapsedState) THEN collapsedState[op.from + 1] ELSE FALSE)
  ELSE IF op.kind = "remove" THEN SpliceOut(collapsedState, op.from)
  ELSE SpliceIn(collapsedState, op.to, op.val)

\* KanbanEmbed.setViewState(key, undefined, globalUpdater): this embed only;
\* spreading an undefined array throws
EmbedSetViewState(vs, i, op) ==
  IF i \in Inst /\ vs[i].set
  THEN [ok |-> TRUE, vs |-> [vs EXCEPT ![i].collapse = ApplyOp(op, @)]]
  ELSE [ok |-> FALSE, vs |-> vs]

\* the panel-bound instance: the updater is applied to every instance
\* registered for the document, each on its own copy
ViewSetViewState(vs, regs, i, op) ==
  LET targets == {j \in regs : FileOf(j) = FileOf(i)}
  IN IF \A j \in targets : vs[j].set
     THEN [ok |-> TRUE,
           vs |-> [j \in Inst |-> IF j \in targets
                                  THEN [vs[j] EXCEPT !.collapse = ApplyOp(op, @)]
                                  ELSE vs[j]]]
     ELSE [ok |-> FALSE, vs |-> vs]

setViewState(vs, regs, i, op) ==
  IF IsView(i) THEN ViewSetViewState(vs, regs, i, op) ELSE EmbedSetViewState(vs, i, op)

(***************************************************************************)
(* Registry lookups                                                        *)
(***************************************************************************)
NoInstance == "none"

\* plugin.getKanbanInstance(scopeId, win): the view or embed stored under the id
getKanbanInstance(regs, scopeId) ==
  IF \E i \in regs : IdOf(i) = scopeId
  THEN CHOOSE i \in regs : IdOf(i) = scopeId
  ELSE NoInstance

\* StateManager.setState(updater): the updater's board becomes the state; an
\* exception in the updater is caught and recorded in the board's error list
setState(bds, file, result) ==
  IF result.ok THEN [bds EXCEPT ![file] = result.board]
  ELSE [bds EXCEPT ![file].errors = TRUE]

Returned(board, vs) == [ok |-> TRUE, board |-> board, vs |-> vs, skipped |-> FALSE]

Skipped(board, vs) == [ok |-> TRUE, board |-> board, vs |-> vs, skipped |-> TRUE]

Threw(board, vs) == [ok |-> FALSE, board |-> board, vs |-> vs, skipped |-> FALSE]

(***************************************************************************)
(* handleDrop                                                              *)
(***************************************************************************)
\* dropEntityData.acceptsSort && !dropEntityData.acceptsSort.includes(dragEntityData.type)
InDropArea(dragEntity, dropEntity) ==
  dropEntity.acceptsSort # {} /\ dragEntity.type \notin dropEntity.acceptsSort

\* same board: const finalDropPath = inDropArea ? [...dropPath, 0] : dropPath
SameFinalDropPath(dropPath, inDropArea) ==
  IF inDropArea THEN dropPath \o <<0>> ELSE dropPath

\* variant of the collapse destination index that is never shifted
CollapseToUnshifted(from, to) == to

\* let to = finalDropPath.last(); if (from < to) to -= 1
CollapseTo(from, to) == IF from < to THEN to - 1 ELSE to

\* variant of the same-board updater that takes the entity out and never puts
\* it back
SameBoardUpdaterLosesEntity(bds, sms, regs, vs, instance, dragPath, finalDropPath) ==
  LET board  == bds[FileOf(instance)]
      entity == getEntityFromPath(board, dragPath)
  IN IF entity = Null \/ ~ParentResolves(board, finalDropPath)
     THEN Threw(board, vs)
     ELSE Returned(removeEntity(board, dragPath), vs)

\* variant of the same-board updater's last step that never looks at the marker
RemoveSortingNever(board, newBoard, finalDropPath) == newBoard

\* "Remove sorting in the destination lane": the parent of the final drop path
\* is read in the board before the move, the marker is unset in the moved board
RemoveSorting(board, newBoard, finalDropPath) ==
  LET destinationParentPath == Parent(finalDropPath)
      destinationParent == getEntityFromPath(board, destinationParentPath)
  IN IF destinationParent.type = "lane" /\ destinationParent.sorted
     THEN updateEntityUnsetSorted(newBoard, destinationParentPath)
     ELSE newBoard

\* variant of the same-board updater that derives the board setting from the
\* board's own array instead of the instance's
SameBoardUpdaterBoardCollapse(bds, sms, regs, vs, instance, dragPath, finalDropPath) ==
  LET board  == bds[FileOf(instance)]
      entity == getEntityFromPath(board, dragPath)
  IN IF entity = Null \/ ~ParentResolves(board, finalDropPath)
     THEN Threw(board, vs)
     ELSE IF entity.type = "lane"
     THEN LET newBoard == moveEntity(board, dragPath, finalDropPath, entity)
              from == Last(dragPath)
              to   == CollapseTo(from, Last(finalDropPath))
              op == MoveOp(from, to)
              sv == setViewState(vs, regs, instance, op)
          IN IF ~sv.ok
             THEN Threw(board, sv.vs)
             ELSE Returned([newBoard EXCEPT !.collapse = ApplyOp(op, board.collapse)],
                           sv.vs)
     ELSE LET next == maybeCompleteForMove(board, dragPath, board, finalDropPath, entity)
              newBoard == moveEntity(board, dragPath, finalDropPath, next)
          IN Returned(RemoveSorting(board, newBoard, finalDropPath), vs)

\* same board: the updater handed to stateManager.setState
SameBoardUpdater(bds, sms, regs, vs, instance, dragPath, finalDropPath) ==
  LET board  == bds[FileOf(instance)]
      entity == getEntityFromPath(board, dragPath)
  IN IF entity = Null \/ ~ParentResolves(board, finalDropPath)
     THEN Threw(board, vs)
     ELSE IF entity.type = "lane"
     THEN LET newBoard == moveEntity(board, dragPath, finalDropPath, entity)
              from == Last(dragPath)
              to   == CollapseTo(from, Last(finalDropPath))
              collapsedState == getViewState(vs, bds, sms, instance)
              op == MoveOp(from, to)
              sv == setViewState(vs, regs, instance, op)
          IN IF ~sv.ok \/ ~collapsedState.def
             THEN Threw(board, sv.vs)
             ELSE Returned([newBoard EXCEPT !.collapse = ApplyOp(op, collapsedState.val)],
                           sv.vs)
     ELSE LET next == maybeCompleteForMove(board, dragPath, board, finalDropPath, entity)
              newBoard == moveEntity(board, dragPath, finalDropPath, next)
          IN Returned(RemoveSorting(board, newBoard, finalDropPath), vs)

\* variant of the cross-board final drop path that ignores the board setting
CrossFinalDropPathPrepend(destinationBoard, dropPath, inDropArea) ==
  [ok |-> TRUE, path |-> IF inDropArea THEN dropPath \o <<0>> ELSE dropPath]

\* cross board: the pre-calculated final drop path; reading parent.children of
\* a missing parent throws
CrossFinalDropPath(destinationBoard, dropPath, inDropArea) ==
  IF ~inDropArea THEN [ok |-> TRUE, path |-> dropPath]
  ELSE LET parent == getEntityFromPath(destinationBoard, dropPath)
           shouldAppend == destinationBoard.insertion \in {"append", "unset"}
       IN IF ~shouldAppend THEN [ok |-> TRUE, path |-> dropPath \o <<0>>]
          ELSE IF parent.type \in {"lane", "board"}
          THEN [ok |-> TRUE, path |-> dropPath \o <<Len(parent.children)>>]
          ELSE [ok |-> FALSE, path |-> dropPath]

\* variant of the source-removal updater that removes the next sibling of the
\* recorded path
SourceRemovalOffByOne(bds, sms, regs, vs, sourceInstance, dragPath, entityId, entityType) ==
  LET currentSourceBoard == bds[FileOf(sourceInstance)]
      currentEntity == getEntityFromPath(currentSourceBoard, dragPath)
      nextPath == Parent(dragPath) \o <<Last(dragPath) + 1>>
  IN IF currentEntity = Null \/ currentEntity.id # entityId
     THEN Skipped(currentSourceBoard, vs)
     ELSE Returned(removeEntity(currentSourceBoard, nextPath), vs)

\* variant of the source-removal updater whose guard is inverted: a matching
\* entity is left in place
SourceRemovalInverted(bds, sms, regs, vs, sourceInstance, dragPath, entityId, entityType) ==
  LET currentSourceBoard == bds[FileOf(sourceInstance)]
      currentEntity == getEntityFromPath(currentSourceBoard, dragPath)
  IN IF currentEntity = Null \/ currentEntity.id = entityId
     THEN Skipped(currentSourceBoard, vs)
     ELSE Returned(removeEntity(currentSourceBoard, dragPath), vs)

\* cross board, step 2: the updater handed to sourceStateManager.setState
SourceRemovalUpdater(bds, sms, regs, vs, sourceInstance, dragPath, entityId, entityType) ==
  LET currentSourceBoard == bds[FileOf(sourceInstance)]
      currentEntity == getEntityFromPath(currentSourceBoard, dragPath)
  IN IF currentEntity = Null \/ currentEntity.id # entityId
     THEN Skipped(currentSourceBoard, vs)
     ELSE IF entityType = "lane"
     THEN LET collapsedState == getViewState(vs, bds, sms, sourceInstance)
              op == RemoveOp(Last(dragPath))
              sv == setViewState(vs, regs, sourceInstance, op)
          IN IF ~sv.ok \/ ~collapsedState.def
             THEN Threw(currentSourceBoard, sv.vs)
             ELSE Returned([removeEntity(currentSourceBoard, dragPath)
                              EXCEPT !.collapse = ApplyOp(op, collapsedState.val)],
                           sv.vs)
     ELSE Returned(removeEntity(currentSourceBoard, dragPath), vs)

\* variant of the destination-insert updater that leaves the destination
\* instance's collapse array alone
DestinationInsertNoViewState(bds, sms, regs, vs, sourceInstance, destinationInstance, dragPath, finalDropPath, toInsert, entityType) ==
  LET currentDestinationBoard == bds[FileOf(destinationInstance)]
  IN IF ~ParentResolves(currentDestinationBoard, finalDropPath)
     THEN Threw(currentDestinationBoard, vs)
     ELSE Returned(insertEntity(currentDestinationBoard, finalDropPath, toInsert), vs)

\* cross board, step 3: the updater handed to destinationStateManager.setState
DestinationInsertUpdater(bds, sms, regs, vs, sourceInstance, destinationInstance, dragPath, finalDropPath, toInsert, entityType) ==
  LET currentDestinationBoard == bds[FileOf(destinationInstance)]
  IN IF entityType = "lane"
     THEN LET collapsedState == getViewState(vs, bds, sms, destinationInstance)
              sourceState == getViewState(vs, bds, sms, sourceInstance)
              val == IF sourceState.def /\ Last(dragPath) < Len(sourceState.val)
                     THEN sourceState.val[Last(dragPath) + 1] ELSE FALSE
              op == InsertOp(Last(finalDropPath), val)
              sv == setViewState(vs, regs, destinationInstance, op)
          IN IF ~sv.ok \/ ~collapsedState.def
                \/ ~ParentResolves(currentDestinationBoard, finalDropPath)
             THEN Threw(currentDestinationBoard, sv.vs)
             ELSE Returned([insertEntity(currentDestinationBoard, finalDropPath, toInsert)
                              EXCEPT !.collapse = ApplyOp(op, collapsedState.val)],
                           sv.vs)
     ELSE IF ~ParentResolves(currentDestinationBoard, finalDropPath)
     THEN Threw(currentDestinationBoard, vs)
     ELSE Returned(insertEntity(currentDestinationBoard, finalDropPath, toInsert), vs)

NoEntity == [scopeId |-> <<>>, path |-> <<>>, type |-> "", id |-> "", acceptsSort |-> {}]

\* the part of a handleDrop record that the next record keeps of it
Prior(record) ==
  [drag |-> record.drag, route |-> record.route, sameFile |-> record.sameFile,
   removed |-> record.removed, pre |-> record.pre]

NoPrior ==
  [drag |-> NoEntity, route |-> "none", sameFile |-> FALSE, removed |-> FALSE,
   pre |-> boards]

\* what one handleDrop call did: the history record kept in `last`
DropRecord(dragEntity, dropEntity, route, reason) ==
  [route |-> route, reason |-> reason, thrown |-> FALSE,
   drag |-> dragEntity, drop |-> dropEntity,
   sameFile |-> SameFile(dragEntity.scopeId, dropEntity.scopeId),
   sourceInstance |-> getKanbanInstance(registered, dragEntity.scopeId),
   destinationInstance |-> getKanbanInstance(registered, dropEntity.scopeId),
   entityId |-> "", entityType |-> "", finalDropPath |-> <<>>,
   removed |-> FALSE, inserted |-> FALSE,
   pre |-> boards, preViews |-> viewSettings,
   mid |-> boards, midViews |-> viewSettings,
   registered |-> registered, stateManagers |-> stateManagers,
   prior |-> IF nDrops = 0 THEN NoPrior ELSE Prior(last)]

Outcome(bds, vs, record) == [boards |-> bds, viewSettings |-> vs, last |-> record]

\* variant of the instance check that looks at the source instance only
InstanceMissingSourceOnly(sourceInstance, destinationInstance) ==
  sourceInstance = NoInstance

\* if (!sourceInstance || !destinationInstance) return
InstanceMissing(sourceInstance, destinationInstance) ==
  sourceInstance = NoInstance \/ destinationInstance = NoInstance

\* if (!sourceStateManager || !destinationStateManager) return
StateManagerMissing(sms, sourceInstance, destinationInstance) ==
  FileOf(sourceInstance) \notin sms \/ FileOf(destinationInstance) \notin sms

\* handleDrop, same-board branch
SameBoardDrop(dragEntity, dropEntity) ==
  LET instance == getKanbanInstance(registered, dragEntity.scopeId)
      rec(route, reason) == DropRecord(dragEntity, dropEntity, route, reason)
  IN IF InstanceMissing(instance, instance)
     THEN Outcome(boards, viewSettings, rec("abort", "instance"))
     ELSE IF StateManagerMissing(stateManagers, instance, instance)
     THEN Outcome(boards, viewSettings, rec("abort", "stateManager"))
     ELSE LET finalDropPath == SameFinalDropPath(dropEntity.path,
                                                 InDropArea(dragEntity, dropEntity))
              res == SameBoardUpdater(boards, stateManagers, registered, viewSettings,
                                      instance, dragEntity.path, finalDropPath)
              entity == getEntityFromPath(boards[FileOf(instance)], dragEntity.path)
              after == setState(boards, FileOf(instance), res)
          IN Outcome(after, res.vs,
               [rec("same", "") EXCEPT
                  !.entityId = IF entity = Null THEN "" ELSE entity.id,
                  !.entityType = entity.type,
                  !.finalDropPath = finalDropPath,
                  !.removed = res.ok, !.inserted = res.ok,
                  !.mid = after, !.midViews = res.vs])

\* variant of the pre-calculation that inserts the captured entity as it is
ToInsertCaptured(sourceBoard, dragPath, destinationBoard, finalDropPath, entity) == entity

\* "Pre-calculate what to insert": an item goes through maybeCompleteForMove,
\* a lane is inserted as captured
ToInsert(sourceBoard, dragPath, destinationBoard, finalDropPath, entity) ==
  IF entity.type = "item"
  THEN maybeCompleteForMove(sourceBoard, dragPath, destinationBoard, finalDropPath, entity)
  ELSE entity

\* handleDrop, cross-board branch
CrossBoardDrop(dragEntity, dropEntity) ==
  LET sourceInstance == getKanbanInstance(registered, dragEntity.scopeId)
      destinationInstance == getKanbanInstance(registered, dropEntity.scopeId)
      rec(route, reason) == DropRecord(dragEntity, dropEntity, route, reason)
  IN IF InstanceMissing(sourceInstance, destinationInstance)
     THEN Outcome(boards, viewSettings, rec("abort", "instance"))
     ELSE IF StateManagerMissing(stateManagers, sourceInstance, destinationInstance)
     THEN Outcome(boards, viewSettings, rec("abort", "stateManager"))
     ELSE LET sourceBoard == boards[FileOf(sourceInstance)]
              destinationBoard == boards[FileOf(destinationInstance)]
              entity == getEntityFromPath(sourceBoard, dragEntity.path)
              final == CrossFinalDropPath(destinationBoard, dropEntity.path,
                                          InDropArea(dragEntity, dropEntity))
              found == [rec("cross", "") EXCEPT
                          !.entityId = entity.id, !.entityType = entity.type,
                          !.finalDropPath = final.path]
          IN IF entity = Null
             THEN Outcome(boards, viewSettings, rec("abort", "entity"))
             ELSE IF ~final.ok
             THEN Outcome(boards, viewSettings, [found EXCEPT !.thrown = TRUE])
             ELSE LET toInsert == ToInsert(sourceBoard, dragEntity.path,
                                           destinationBoard, final.path, entity)
                      removal == SourceRemovalUpdater(boards, stateManagers, registered,
                                    viewSettings, sourceInstance, dragEntity.path,
                                    entity.id, entity.type)
                      mid == setState(boards, FileOf(sourceInstance), removal)
                      insertion == DestinationInsertUpdater(mid, stateManagers, registered,
                                    removal.vs, sourceInstance, destinationInstance,
                                    dragEntity.path, final.path, toInsert, entity.type)
                      after == setState(mid, FileOf(destinationInstance), insertion)
                  IN Outcome(after, insertion.vs,
                       [found EXCEPT
                          !.removed = removal.ok /\ ~removal.skipped,
                          !.inserted = insertion.ok,
                          !.mid = mid, !.midViews = removal.vs])

\* handleDrop(dragEntity, dropEntity) for two board entities
HandleDropOutcome(dragEntity, dropEntity) ==
  IF SameFile(dragEntity.scopeId, dropEntity.scopeId)
  THEN SameBoardDrop(dragEntity, dropEntity)
  ELSE CrossBoardDrop(dragEntity, dropEntity)

(***************************************************************************)
(* handleDrop as a whole: the entity guard, the html drag, the board paths *)
(***************************************************************************)
\* dragEntity.scopeId === 'htmldnd'
HtmlDnd == <<"h", "t", "m", "l", "d", "n", "d">>

\* Array.prototype.splice(idx, 0, ...es) on a copy
SpliceInAll(arr, idx, es) ==
  LET at == IF idx < Len(arr) THEN idx ELSE Len(arr)
  IN SubSeq(arr, 1, at) \o es \o SubSeq(arr, at + 1, Len(arr))

\* insertEntity(board, dropPath, items)
insertEntities(board, path, entities) ==
  IF Len(path) = 1 THEN [board EXCEPT !.lanes = SpliceInAll(@, path[1], entities)]
  ELSE [board EXCEPT !.lanes[path[1] + 1].children = SpliceInAll(@, path[2], entities)]

\* data.content.map(title => stateManager.getNewItem(title, ...)): one new item
\* per dragged title, checked when the destination parent marks items complete
NewItems(count, isComplete) ==
  [k \in 1..count |-> Item(IF k = 1 THEN "N1" ELSE "N2", isComplete)]

\* variant of the html drop that takes the board from the drop entity
HtmlDropBoardOfTarget(dragEntity, dropEntity) == dropEntity.scopeId

\* plugin.getStateManagerFromScopeId(data.viewId, data.win): the board of the
\* html drop is named by the drag data
HtmlDropBoard(dragEntity, dropEntity) == dragEntity.viewId

\* handleDrop, dragEntity.scopeId === 'htmldnd'
HtmlDrop(dragEntity, dropEntity) ==
  LET instance == getKanbanInstance(registered, HtmlDropBoard(dragEntity, dropEntity))
      rec(route, reason) == DropRecord(dragEntity, dropEntity, route, reason)
  IN IF instance = NoInstance \/ FileOf(instance) \notin stateManagers
     THEN Outcome(boards, viewSettings, rec("abort", "stateManager"))
     ELSE LET board == boards[FileOf(instance)]
              dropPath == dropEntity.path
              destinationParent ==
                IF dropPath = <<>> THEN getEntityFromPath(board, <<>>)
                ELSE getEntityFromPath(board, Parent(dropPath))
              isComplete == /\ destinationParent # Null
                            /\ destinationParent.type = "lane"
                            /\ destinationParent.complete
              items == NewItems(dragEntity.content, isComplete)
              res == IF ParentResolves(board, dropPath)
                     THEN Returned(insertEntities(board, dropPath, items), viewSettings)
                     ELSE Threw(board, viewSettings)
              after == setState(boards, FileOf(instance), res)
          IN Outcome(after, viewSettings,
               [rec("html", "") EXCEPT
                  !.sourceInstance = instance, !.destinationInstance = instance,
                  !.entityType = "item", !.finalDropPath = dropPath,
                  !.inserted = res.ok, !.mid = after])

\* variant of the entity guard that looks at the drag entity alone
MissingEntityDragOnly(dragEntity, dropEntity) == dragEntity = NoEntity

\* if (!dragEntity || !dropEntity) return
MissingEntity(dragEntity, dropEntity) == dragEntity = NoEntity \/ dropEntity = NoEntity

\* handleDrop(dragEntity, dropEntity)
HandleDrop(dragEntity, dropEntity) ==
  IF MissingEntity(dragEntity, dropEntity)
  THEN Outcome(boards, viewSettings,
         [route |-> "abort", reason |-> "entities", thrown |-> FALSE,
          drag |-> dragEntity, drop |-> dropEntity, sameFile |-> FALSE,
          sourceInstance |-> NoInstance, destinationInstance |-> NoInstance,
          entityId |-> "", entityType |-> "", finalDropPath |-> <<>>,
          removed |-> FALSE, inserted |-> FALSE,
          pre |-> boards, preViews |-> viewSettings,
          mid |-> boards, midViews |-> viewSettings,
          registered |-> registered, stateManagers |-> stateManagers,
          prior |-> IF nDrops = 0 THEN NoPrior ELSE Prior(last)])
  ELSE IF dragEntity.scopeId = HtmlDnd THEN HtmlDrop(dragEntity, dropEntity)
  ELSE HandleDropOutcome(dragEntity, dropEntity)

(***************************************************************************)
(* Entities of the last paint                                              *)
(***************************************************************************)
Paths(board) ==
  {<<l>> : l \in 0..(Len(board.lanes) - 1)}
  \cup UNION {{<<l, k>> : k \in 0..(Len(board.lanes[l + 1].children) - 1)} :
                l \in 0..(Len(board.lanes) - 1)}

\* the free slot after the last sibling of each container
PlaceholderPaths(board) ==
  {<<Len(board.lanes)>>}
  \cup {<<l, Len(board.lanes[l + 1].children)>> : l \in 0..(Len(board.lanes) - 1)}

EntityOf(i, board, path) ==
  LET e == getEntityFromPath(board, path)
  IN [scopeId |-> IdOf(i), path |-> path, type |-> e.type, id |-> e.id,
      acceptsSort |-> IF e.type = "lane" THEN {"lane"} ELSE {"item"}]

PlaceholderOf(i, path) ==
  [scopeId |-> IdOf(i), path |-> path, type |-> "placeholder", id |-> "",
   acceptsSort |-> IF Len(path) = 1 THEN {"lane"} ELSE {"item"}]

DragEntities ==
  UNION {{EntityOf(i, rendered.boards[FileOf(i)], p) :
            p \in Paths(rendered.boards[FileOf(i)])} : i \in rendered.instances}

DropEntities ==
  UNION {{EntityOf(i, rendered.boards[FileOf(i)], p) :
            p \in Paths(rendered.boards[FileOf(i)])}
         \cup {PlaceholderOf(i, p) : p \in PlaceholderPaths(rendered.boards[FileOf(i)])} :
           i \in rendered.instances}

\* the drop target accepts the dragged type: items go into lanes or between
\* items, lanes go between lanes
Accepts(dropEntity, dragEntity) ==
  IF dragEntity.type = "item"
  THEN dropEntity.type \in {"lane", "item"} \/ Len(dropEntity.path) = 2
  ELSE Len(dropEntity.path) = 1

(***************************************************************************)
(* StateManager lifecycle of one document: views, embeds and live-preview  *)
(* renderers load, register, mutate the board and unload                   *)
(***************************************************************************)
\* StateManager objects constructed in one behaviour
MaxManagers == 2
\* board mutations in one behaviour
MaxEdits == 2

Views == {"view"}

Embeds == {"embA", "embB"}

Renderers == {"rendA", "rendB"}

LifeInst == Views \cup Embeds \cup Renderers

\* this.state before any board was parsed
NoBoard == [parsed |-> FALSE, content |-> 0, errors |-> FALSE]

\* this.getParsedBoard(md)
ParsedBoard(md) == [parsed |-> TRUE, content |-> md, errors |-> FALSE]

\* new StateManager(...): empty sets, no state; hadView remembers that a view
\* has been registered with this manager
NewManager == [state |-> NoBoard, viewSet |-> {}, embedSet |-> {}, emptied |-> FALSE, hadView |-> FALSE]

Idle == [pc |-> "idle", data |-> 0, sm |-> 0, shouldParse |-> FALSE, seen |-> NoBoard]

InitLife ==
  /\ managers = <<>>
  /\ pluginMap = 0
  /\ disk = 0
  /\ tasks = [i \in LifeInst |-> Idle]
  /\ nEdits = 0

\* the instances whose state receiver is subscribed to manager m
Subscribers(mgrs, m) == mgrs[m].viewSet \cup mgrs[m].embedSet

\* this.stateReceivers.forEach((receiver) => receiver(this.state))
Notify(tks, mgrs, m) ==
  [i \in LifeInst |->
     IF i \in Subscribers(mgrs, m) /\ tks[i].sm = m
     THEN [tks[i] EXCEPT !.seen = mgrs[m].state]
     ELSE tks[i]]

\* embedSet.add(embed) / viewSet.add(view): the synchronous start of a registration
StartRegister(mgrs, m, i) ==
  IF i \in Views THEN [mgrs EXCEPT ![m].viewSet = @ \cup {i}, ![m].hadView = TRUE]
  ELSE [mgrs EXCEPT ![m].embedSet = @ \cup {i}]

\* whether plugin.addEmbed / addView can go ahead within the bound on managers
CanAdd(mgrs, map) == map # 0 \/ Len(mgrs) < MaxManagers

\* plugin.addEmbed / addView: register with the document's manager, or
\* construct one with this instance as its initial instance (the constructor
\* always registers with shouldParseData = true)
AddInstance(mgrs, map, i, data, shouldParseData) ==
  IF map # 0
  THEN [managers |-> StartRegister(mgrs, map, i), pluginMap |-> map,
        task |-> [pc |-> "registering", data |-> data, sm |-> map,
                  shouldParse |-> shouldParseData, seen |-> mgrs[map].state]]
  ELSE [managers |-> StartRegister(Append(mgrs, NewManager), Len(mgrs) + 1, i),
        pluginMap |-> Len(mgrs) + 1,
        task |-> [pc |-> "registering", data |-> data, sm |-> Len(mgrs) + 1,
                  shouldParse |-> TRUE, seen |-> NoBoard]]

\* a registration that parses whenever it is asked to, whatever state exists
ResumeRegisterAlwaysParses(mgrs, m, data, shouldParseData) ==
  IF shouldParseData
  THEN [mgrs EXCEPT ![m].state = ParsedBoard(data)]
  ELSE mgrs

\* the rest of registerEmbed after the 10 ms delay: parse only when asked to
\* and no state exists; newBoardForEmbed sets the state without saving
ResumeRegister(mgrs, m, data, shouldParseData) ==
  IF shouldParseData /\ ~mgrs[m].state.parsed
  THEN [mgrs EXCEPT ![m].state = ParsedBoard(data)]
  ELSE mgrs

\* the empty check before the embed sets existed: onEmpty fires as soon as no
\* view is left
UnregisterViewsOnly(mgrs, m, i) ==
  LET left == [mgrs EXCEPT ![m].viewSet = @ \ {i}, ![m].embedSet = @ \ {i}]
  IN IF i \in Subscribers(mgrs, m) /\ left[m].viewSet = {}
     THEN [left EXCEPT ![m].emptied = TRUE]
     ELSE left

\* unregisterEmbed / unregisterView: onEmpty fires when both sets are empty
Unregister(mgrs, m, i) ==
  LET left == [mgrs EXCEPT ![m].viewSet = @ \ {i}, ![m].embedSet = @ \ {i}]
  IN IF i \in Subscribers(mgrs, m) /\ Subscribers(left, m) = {}
     THEN [left EXCEPT ![m].emptied = TRUE]
     ELSE left

\* () => this.stateManagers.delete(file), run when onEmpty fires
MapAfterUnregister(mgrs, map, m, i) ==
  IF ~mgrs[m].emptied /\ Unregister(mgrs, m, i)[m].emptied THEN 0 ELSE map

\* plugin.removeEmbed / removeView: unregister from the manager the plugin
\* holds for the file, if any
RemoveInstance(mgrs, map, i) ==
  IF map = 0 THEN [managers |-> mgrs, pluginMap |-> map]
  ELSE [managers |-> Unregister(mgrs, map, i),
        pluginMap |-> MapAfterUnregister(mgrs, map, map, i)]

\* the latest lifecycle operation: the instance, the manager m it acted on and
\* what that manager, the plugin map and the disk held before it
LifeOp(op, i, m) ==
  [stage |-> "life", op |-> op, inst |-> i, persist |-> FALSE, fails |-> FALSE,
   target |-> m, pluginMap |-> pluginMap, disk |-> disk,
   state |-> IF m = 0 THEN NoBoard ELSE managers[m].state,
   viewSet |-> IF m = 0 THEN {} ELSE managers[m].viewSet,
   data |-> tasks[i].data, shouldParse |-> tasks[i].shouldParse]

\* get isPrimary(): an embed never is; a panel-bound view is eligible
isPrimary(i) == i \in Views

\* a save that goes through any registered instance, view or embed
SetStateResultAnyInstance(mgrs, m, content, shouldSave, fails) ==
  LET newState == [mgrs[m].state EXCEPT !.content = content]
      saving == shouldSave /\ ~newState.errors /\ Subscribers(mgrs, m) # {}
  IN [managers |-> [mgrs EXCEPT ![m].state =
                      IF saving /\ fails THEN [newState EXCEPT !.errors = TRUE]
                      ELSE newState],
      wrote |-> saving /\ ~fails]

\* a failed save that puts the previous state back
SetStateResultRollsBack(mgrs, m, content, shouldSave, fails) ==
  LET newState == [mgrs[m].state EXCEPT !.content = content]
      saving == shouldSave /\ ~newState.errors /\ mgrs[m].viewSet # {}
  IN [managers |-> [mgrs EXCEPT ![m].state =
                      IF saving /\ fails THEN [@ EXCEPT !.errors = TRUE]
                      ELSE newState],
      wrote |-> saving /\ ~fails]

\* StateManager.setState(updater, shouldSave) with saveToDisk: the new state is
\* kept; it is written when shouldSave is set, the board has no errors and a
\* view is registered; a failing serialization ends in setError
SetStateResult(mgrs, m, content, shouldSave, fails) ==
  LET newState == [mgrs[m].state EXCEPT !.content = content]
      saving == shouldSave /\ ~newState.errors /\ mgrs[m].viewSet # {}
  IN [managers |-> [mgrs EXCEPT ![m].state =
                      IF saving /\ fails THEN [newState EXCEPT !.errors = TRUE]
                      ELSE newState],
      wrote |-> saving /\ ~fails]

(***************************************************************************)
(* Actions                                                                 *)
(***************************************************************************)
NoProbe == [stage |-> "off"]

\* board x: Todo [A, B] (collapsed) and Done [] (marks items complete, sorted);
\* board y: Backlog [C], new cards prepended
InitBoards ==
  [d \in Docs |->
     IF d = DocX
     THEN Board(<<Lane("L1", FALSE, FALSE, <<Item("A", FALSE), Item("B", FALSE)>>),
                  Lane("L2", TRUE, TRUE, <<>>)>>,
                <<TRUE, FALSE>>, "unset")
     ELSE Board(<<Lane("L3", FALSE, FALSE, <<Item("C", FALSE)>>)>>,
                <<FALSE>>, "prepend")]

InitProgram ==
  /\ boards = InitBoards
  /\ stateManagers = Docs
  /\ registered = Inst
  \* populateViewState: each instance starts from the board setting
  /\ viewSettings = [i \in Inst |-> [set |-> TRUE, collapse |-> boards[FileOf(i)].collapse]]
  /\ rendered = [boards |-> boards, instances |-> registered]
  /\ last = [route |-> "none", reason |-> "", thrown |-> FALSE,
              drag |-> NoEntity, drop |-> NoEntity, sameFile |-> FALSE,
              sourceInstance |-> NoInstance, destinationInstance |-> NoInstance,
              entityId |-> "", entityType |-> "", finalDropPath |-> <<>>,
              removed |-> FALSE, inserted |-> FALSE,
              pre |-> boards, preViews |-> viewSettings,
              mid |-> boards, midViews |-> viewSettings,
              registered |-> registered, stateManagers |-> stateManagers,
              prior |-> NoPrior]
  /\ nDrops = 0
  /\ InitLife

Init == InitProgram /\ probe = NoProbe

\* the orchestrator hands a drag entity and a drop entity of the last paint
\* to handleDrop
handleDrop(dragEntity, dropEntity) ==
  LET out == HandleDropOutcome(dragEntity, dropEntity)
  IN /\ nDrops < MaxDrops
     /\ boards' = out.boards
     /\ viewSettings' = out.viewSettings
     /\ last' = out.last
     /\ nDrops' = nDrops + 1
     /\ UNCHANGED <<stateManagers, registered, rendered, probe, managers, pluginMap, disk, tasks, nEdits>>

Drop ==
  \E dragEntity \in DragEntities, dropEntity \in DropEntities :
    /\ Accepts(dropEntity, dragEntity)
    /\ handleDrop(dragEntity, dropEntity)

\* the surfaces repaint: entities now carry the paths of the current boards
Render ==
  /\ nDrops < MaxDrops
  /\ rendered # [boards |-> boards, instances |-> registered]
  /\ rendered' = [boards |-> boards, instances |-> registered]
  /\ UNCHANGED <<boards, stateManagers, registered, viewSettings, last, nDrops, probe, managers, pluginMap, disk, tasks, nEdits>>

\* plugin.removeEmbed(embed) and StateManager.unregisterEmbed(embed)
removeEmbed(embed) ==
  /\ nDrops < MaxDrops
  /\ embed \in registered
  /\ ~IsView(embed)
  /\ registered' = registered \ {embed}
  /\ stateManagers' =
       IF \E j \in registered \ {embed} : FileOf(j) = FileOf(embed)
       THEN stateManagers
       ELSE stateManagers \ {FileOf(embed)}
  /\ UNCHANGED <<boards, viewSettings, rendered, last, nDrops, probe, managers, pluginMap, disk, tasks, nEdits>>

RemoveEmbed == \E embed \in Inst : removeEmbed(embed)

Next == Drop \/ Render \/ RemoveEmbed

Spec == Init /\ [][Next]_vars

(***************************************************************************)
(* Lifecycle actions                                                       *)
(***************************************************************************)
\* KanbanEmbed.onload up to the end of vault.read(file)
onload(e) ==
  /\ tasks[e].pc = "idle"
  /\ tasks' = [tasks EXCEPT ![e].pc = "read", ![e].data = disk]
  /\ probe' = LifeOp("onload", e, 0)
  /\ UNCHANGED <<managers, pluginMap, disk, nEdits>>
  /\ UNCHANGED dropVars

\* KanbanEmbed.onload after the read: plugin.addEmbed(this, this.data, true)
addEmbed(e) ==
  LET out == AddInstance(managers, pluginMap, e, tasks[e].data, TRUE)
  IN /\ tasks[e].pc = "read"
     /\ CanAdd(managers, pluginMap)
     /\ managers' = out.managers
     /\ pluginMap' = out.pluginMap
     /\ tasks' = [tasks EXCEPT ![e] = out.task]
     /\ probe' = LifeOp("addEmbed", e, pluginMap)
     /\ UNCHANGED <<disk, nEdits>>
     /\ UNCHANGED dropVars

\* a panel opens the file: plugin.addView(view, data, shouldParseData)
addView(v, shouldParseData) ==
  LET out == AddInstance(managers, pluginMap, v, disk, shouldParseData)
  IN /\ tasks[v].pc = "idle"
     /\ CanAdd(managers, pluginMap)
     /\ managers' = out.managers
     /\ pluginMap' = out.pluginMap
     /\ tasks' = [tasks EXCEPT ![v] = out.task]
     /\ probe' = LifeOp("addView", v, pluginMap)
     /\ UNCHANGED <<disk, nEdits>>
     /\ UNCHANGED dropVars

\* registerEmbed / registerView after the 10 ms delay; an instance unloaded in
\* the meantime still runs it
registerResume(i) ==
  LET m == tasks[i].sm
      after == ResumeRegister(managers, m, tasks[i].data, tasks[i].shouldParse)
      told == IF after # managers THEN Notify(tasks, after, m) ELSE tasks
  IN /\ tasks[i].pc \in {"registering", "leaving"}
     /\ managers' = after
     /\ tasks' = [told EXCEPT ![i] =
                    IF tasks[i].pc = "leaving" THEN Idle
                    ELSE [told[i] EXCEPT !.pc = "ready", !.seen = after[m].state]]
     /\ probe' = LifeOp("register", i, tasks[i].sm)
     /\ UNCHANGED <<pluginMap, disk, nEdits>>
     /\ UNCHANGED dropVars

\* KanbanEmbed.onunload / the panel closes: plugin.removeEmbed / removeView
onunload(i) ==
  LET out == RemoveInstance(managers, pluginMap, i)
  IN /\ tasks[i].pc \in {"registering", "ready"}
     /\ managers' = out.managers
     /\ pluginMap' = out.pluginMap
     /\ tasks' = [tasks EXCEPT ![i] =
                    IF tasks[i].pc = "registering" THEN [@ EXCEPT !.pc = "leaving"]
                    ELSE Idle]
     /\ probe' = LifeOp("onunload", i, pluginMap)
     /\ UNCHANGED <<disk, nEdits>>
     /\ UNCHANGED dropVars

\* onWindowMigrated: plugin.removeEmbed(this); plugin.addEmbed(this, this.data, false)
onWindowMigrated(e) ==
  LET gone == RemoveInstance(managers, pluginMap, e)
      out == AddInstance(gone.managers, gone.pluginMap, e, tasks[e].data, FALSE)
  IN /\ tasks[e].pc = "ready"
     /\ CanAdd(gone.managers, gone.pluginMap)
     /\ managers' = out.managers
     /\ pluginMap' = out.pluginMap
     /\ tasks' = [tasks EXCEPT ![e] = out.task]
     /\ probe' = LifeOp("migrate", e, pluginMap)
     /\ UNCHANGED <<disk, nEdits>>
     /\ UNCHANGED dropVars

\* stateManager.setState(updater, shouldSave) on manager m, called by instance i
setStateThrough(i, m, shouldSave, fails) ==
  LET out == SetStateResult(managers, m, nEdits + 1, shouldSave, fails)
      told == Notify(tasks, out.managers, m)
  IN /\ tasks[i].pc = "ready"
     /\ m # 0
     /\ i \in Subscribers(managers, m)
     /\ managers[m].state.parsed
     /\ ~managers[m].state.errors
     /\ nEdits < MaxEdits
     /\ managers' = out.managers
     /\ disk' = IF out.wrote THEN nEdits + 1 ELSE disk
     \* saveToDisk: view.data = fileStr, embed.updateData(fileStr)
     /\ tasks' = [j \in LifeInst |->
                    IF out.wrote /\ j \in Subscribers(managers, m)
                    THEN [told[j] EXCEPT !.data = nEdits + 1] ELSE told[j]]
     /\ nEdits' = nEdits + 1
     /\ probe' = [LifeOp("mutate", i, m) EXCEPT !.persist = shouldSave, !.fails = fails]
     /\ UNCHANGED pluginMap
     /\ UNCHANGED dropVars

\* an edit made through a view or an embed: its portal takes the manager from
\* plugin.stateManagers.get(file)
mutate(i, shouldSave, fails) == setStateThrough(i, pluginMap, shouldSave, fails)

LoadEmbed == \E e \in Embeds : onload(e)

AddEmbed == \E e \in Embeds : addEmbed(e)

AddView == \E v \in Views, shouldParseData \in BOOLEAN : addView(v, shouldParseData)

RegisterResume == \E i \in Views \cup Embeds : registerResume(i)

Unload == \E i \in Views \cup Embeds : onunload(i)

Migrate == \E e \in Embeds : onWindowMigrated(e)

Mutate == \E i \in Views \cup Embeds, shouldSave \in BOOLEAN, fails \in BOOLEAN : mutate(i, shouldSave, fails)

LifecycleInit == InitProgram /\ probe = [stage |-> "life", op |-> "none"]

LifecycleNext ==
  LoadEmbed \/ AddEmbed \/ AddView \/ RegisterResume \/ Unload \/ Migrate \/ Mutate

LifecycleSpec == LifecycleInit /\ [][LifecycleNext]_vars

(***************************************************************************)
(* Live-preview renderers: KanbanPostprocessor.renderEmbeddedBoard, whose   *)
(* continuation is suspended at each await                                 *)
(***************************************************************************)
\* const data = await this.plugin.app.vault.read(file)
readFile(r) ==
  /\ tasks[r].pc = "idle"
  /\ tasks' = [tasks EXCEPT ![r].pc = "read", ![r].data = disk]
  /\ probe' = LifeOp("read", r, 0)
  /\ UNCHANGED <<managers, pluginMap, disk, nEdits>>
  /\ UNCHANGED dropVars

\* let stateManager = this.plugin.getStateManager(file): none, and the
\* continuation waits for import('../StateManager'); or one, and the renderer
\* registers with it
getStateManager(r) ==
  LET out == AddInstance(managers, pluginMap, r, tasks[r].data, TRUE)
  IN /\ tasks[r].pc = "read"
     /\ IF pluginMap = 0
        THEN /\ tasks' = [tasks EXCEPT ![r].pc = "import"]
             /\ UNCHANGED managers
        ELSE /\ tasks' = [tasks EXCEPT ![r] = out.task]
             /\ managers' = out.managers
     /\ probe' = LifeOp("lookup", r, pluginMap)
     /\ UNCHANGED <<pluginMap, disk, nEdits>>
     /\ UNCHANGED dropVars

\* after the import: stateManager = new StateManager(app, renderer, data, ...);
\* this.plugin.stateManagers.set(file, stateManager), whatever the map holds
createStateManager(r) ==
  LET out == AddInstance(managers, 0, r, tasks[r].data, TRUE)
  IN /\ tasks[r].pc = "import"
     /\ Len(managers) < MaxManagers
     /\ managers' = out.managers
     /\ pluginMap' = out.pluginMap
     /\ tasks' = [tasks EXCEPT ![r] = out.task]
     /\ probe' = LifeOp("create", r, pluginMap)
     /\ UNCHANGED <<disk, nEdits>>
     /\ UNCHANGED dropVars

\* cleanup.onunload: plugin.removeRenderer(renderer, win); the renderer leaves
\* the manager it was initialized with, whose onEmpty deletes the file's entry
cleanup(r) ==
  LET m == tasks[r].sm
  IN /\ tasks[r].pc = "ready"
     /\ managers' = Unregister(managers, m, r)
     /\ pluginMap' = MapAfterUnregister(managers, pluginMap, m, r)
     /\ tasks' = [tasks EXCEPT ![r] = Idle]
     /\ probe' = LifeOp("cleanup", r, m)
     /\ UNCHANGED <<disk, nEdits>>
     /\ UNCHANGED dropVars

RendererRead == \E r \in Renderers : readFile(r)

RendererLookup == \E r \in Renderers : getStateManager(r)

RendererCreate == \E r \in Renderers : createStateManager(r)

RendererRegistered == \E r \in Renderers : registerResume(r)

RendererCleanup == \E r \in Renderers : cleanup(r)

\* the renderer's portal is given this.stateManager
RendererMutate == \E r \in Renderers, shouldSave \in BOOLEAN, fails \in BOOLEAN : setStateThrough(r, tasks[r].sm, shouldSave, fails)

RendererNext ==
  RendererRead \/ RendererLookup \/ RendererCreate \/ RendererRegistered \/ RendererCleanup \/ RendererMutate

RendererSpec == LifecycleInit /\ [][RendererNext]_vars

(***************************************************************************)
(* Scope-id routing on its own: ids built as the instances build them,     *)
(* from a discriminant and a document path, then split as handleDrop       *)
(* splits them                                                             *)
(***************************************************************************)
Alphabet == {"a", ":"}

RECURSIVE Strings(_)
Strings(n) ==
  IF n = 0 THEN {<<>>}
  ELSE LET shorter == Strings(n - 1)
       IN shorter \cup {Append(x, c) : x \in shorter, c \in Alphabet}

DocumentPaths == Strings(MaxPathLen) \ {<<>>}

\* a leaf id of a panel and the prefix of an embed
Discriminants == {<<"l", "1">>, <<"e", "m", "b", "e", "d", "-", "1">>}

ScopeInit ==
  /\ InitProgram
  /\ \E dragDisc \in Discriminants, dropDisc \in Discriminants,
        dragPath \in DocumentPaths, dropPath \in DocumentPaths :
       probe = [stage |-> "in",
                dragDisc |-> dragDisc, dragPath |-> dragPath,
                dropDisc |-> dropDisc, dropPath |-> dropPath,
                drag |-> dragDisc \o Sep \o dragPath,
                drop |-> dropDisc \o Sep \o dropPath,
                parts |-> <<>>, file |-> Undefined, route |-> ""]

\* the first statements of handleDrop: split both scope ids, compare the files
RouteDrop ==
  /\ probe.stage = "in"
  /\ probe' = [probe EXCEPT
                 !.stage = "out",
                 !.parts = Split(probe.drag),
                 !.file = FileOfScopeId(probe.drag),
                 !.route = IF SameFile(probe.drag, probe.drop) THEN "same" ELSE "cross"]
  /\ UNCHANGED <<boards, stateManagers, registered, viewSettings, rendered, last, nDrops, managers, pluginMap, disk, tasks, nEdits>>

ScopeNext == RouteDrop

ScopeSpec == ScopeInit /\ [][ScopeNext]_vars

(***************************************************************************)
(* setViewState on its own: an instance sets a value, or hands an updater  *)
(***************************************************************************)
\* setViewState calls in one behaviour
MaxViewOps == 2

\* collapse arrays a caller may set
CollapseValues == UNION {[1..n -> BOOLEAN] : n \in 0..2}

\* updaters a caller may hand over
CollapseOps ==
  {RemoveOp(k) : k \in 0..1} \cup {InsertOp(k, TRUE) : k \in 0..1}
  \cup {MoveOp(0, 1), MoveOp(1, 0)}

\* else if (val !== undefined) this.viewSettings[key] = val
setViewStateValue(vs, i, val) == [vs EXCEPT ![i] = [set |-> TRUE, collapse |-> val]]

ViewStateInit ==
  /\ InitProgram
  /\ probe = [stage |-> "in", n |-> 0, kind |-> "", caller |-> NoInstance,
              val |-> <<>>, op |-> RemoveOp(0), pre |-> viewSettings]

\* instance.setViewState('list-collapse', val)
SetValue ==
  \E i \in registered, val \in CollapseValues :
    /\ probe.n < MaxViewOps
    /\ viewSettings' = setViewStateValue(viewSettings, i, val)
    /\ probe' = [stage |-> "out", n |-> probe.n + 1, kind |-> "value", caller |-> i,
                 val |-> val, op |-> RemoveOp(0), pre |-> viewSettings]
    /\ UNCHANGED <<boards, stateManagers, registered, rendered, last, nDrops, managers, pluginMap, disk, tasks, nEdits>>

\* instance.setViewState('list-collapse', undefined, op)
SetUpdater ==
  \E i \in registered, op \in CollapseOps :
    /\ probe.n < MaxViewOps
    /\ viewSettings' = setViewState(viewSettings, registered, i, op).vs
    /\ probe' = [stage |-> "out", n |-> probe.n + 1, kind |-> "updater", caller |-> i,
                 val |-> <<>>, op |-> op, pre |-> viewSettings]
    /\ UNCHANGED <<boards, stateManagers, registered, rendered, last, nDrops, managers, pluginMap, disk, tasks, nEdits>>

ViewStateNext == SetValue \/ SetUpdater

ViewStateSpec == ViewStateInit /\ [][ViewStateNext]_vars

(***************************************************************************)
(* setViewState and the workspace layout: which calls end in               *)
(* app.workspace.requestSaveLayout()                                       *)
(***************************************************************************)
\* KanbanEmbed.setViewState: the value or the updater on this embed, and no
\* layout save
KanbanEmbedSetViewState(vs, i, kind, val, op) ==
  [vs |-> IF kind = "updater" THEN EmbedSetViewState(vs, i, op).vs
          ELSE setViewStateValue(vs, i, val),
   requestSaveLayout |-> FALSE]

\* the panel-bound instance: its view state is part of the workspace layout
KanbanViewSetViewState(vs, regs, i, kind, val, op) ==
  [vs |-> IF kind = "updater" THEN ViewSetViewState(vs, regs, i, op).vs
          ELSE setViewStateValue(vs, i, val),
   requestSaveLayout |-> TRUE]

\* BoardRenderer.setViewState: the updater on every renderer of the
\* stateManager's rendererSet, or the value on this one; then
\* this.app.workspace.requestSaveLayout(), whatever the context type
BoardRendererSetViewState(rs, r, kind, val, op) ==
  [rs |-> IF kind = "updater" THEN [q \in Renderers |-> ApplyOp(op, rs[q])]
          ELSE [rs EXCEPT ![r] = val],
   requestSaveLayout |-> TRUE]

\* new BoardRenderer(boardContainer, file, this.plugin, 'embed'); KanbanEmbed
EmbedBound(i) == i \in Renderers \/ (i \in Inst /\ ~IsView(i))

\* renderer.initialize: populateViewState from the board settings
LayoutInit ==
  /\ InitProgram
  /\ probe = [stage |-> "layout", n |-> 0, caller |-> NoInstance, kind |-> "",
              rs |-> [r \in Renderers |-> boards[DocX].collapse],
              saves |-> 0, preSaves |-> 0]

\* setViewState('list-collapse', ...) on a view or a KanbanEmbed
SetOnInstance ==
  \E i \in registered, kind \in {"value", "updater"}, val \in CollapseValues, op \in CollapseOps :
    LET out == IF IsView(i) THEN KanbanViewSetViewState(viewSettings, registered, i, kind, val, op)
               ELSE KanbanEmbedSetViewState(viewSettings, i, kind, val, op)
    IN /\ probe.n < MaxViewOps
       /\ viewSettings' = out.vs
       /\ probe' = [probe EXCEPT !.n = @ + 1, !.caller = i, !.kind = kind,
                                  !.preSaves = probe.saves,
                                  !.saves = IF out.requestSaveLayout THEN @ + 1 ELSE @]
       /\ UNCHANGED <<boards, stateManagers, registered, rendered, last, nDrops, managers, pluginMap, disk, tasks, nEdits>>

\* setViewState('list-collapse', ...) on a live-preview renderer
SetOnRenderer ==
  \E r \in Renderers, kind \in {"value", "updater"}, val \in CollapseValues, op \in CollapseOps :
    LET out == BoardRendererSetViewState(probe.rs, r, kind, val, op)
    IN /\ probe.n < MaxViewOps
       /\ probe' = [probe EXCEPT !.n = @ + 1, !.caller = r, !.kind = kind,
                                  !.rs = out.rs,
                                  !.preSaves = probe.saves,
                                  !.saves = IF out.requestSaveLayout THEN @ + 1 ELSE @]
       /\ UNCHANGED <<boards, stateManagers, registered, viewSettings, rendered, last, nDrops, managers, pluginMap, disk, tasks, nEdits>>

LayoutNext == SetOnInstance \/ SetOnRenderer

LayoutSpec == LayoutInit /\ [][LayoutNext]_vars

(***************************************************************************)
(* One drag gesture in the DndContext of a window: start, pointer moves    *)
(* with hit-testing and scroll ticks, end with or without a drop           *)
(***************************************************************************)
\* pointer moves in one gesture
MaxMoves == 1
\* titles carried by one html drag
MaxContent == 2

Windows == {"A", "B"}

\* getWindow() of each instance: the view in window A, each embed in A or B
WindowLayouts == {w \in [Inst -> Windows] : w["v1"] = "A"}

\* the id of an instance that is no longer registered anywhere
GoneId == <<"g", "o", "n", "e">>

\* createHTMLDndHandlers(stateManager, embed.id): the drag entity of an html
\* drag over a board names that board's instance in its data
HtmlDragEntities ==
  {[scopeId |-> HtmlDnd, path |-> <<>>, type |-> "item", id |-> "", acceptsSort |-> {},
    viewId |-> v, content |-> n] :
     v \in {IdOf(i) : i \in rendered.instances} \cup {GoneId}, n \in 1..MaxContent}

\* the instance an entity was registered by
InstanceOfEntity(e) ==
  getKanbanInstance(Inst, IF e.scopeId = HtmlDnd THEN e.viewId ELSE e.scopeId)

\* entity.getData().win
WinOfEntity(winOf, e) ==
  IF InstanceOfEntity(e) = NoInstance THEN "A" ELSE winOf[InstanceOfEntity(e)]

\* hit-testing without the window comparison
calculateDragIntersectAnyWindow(winOf, win, dragEntity, over) ==
  IF over # NoEntity /\ Accepts(over, dragEntity) THEN over ELSE NoEntity

\* DragManager.calculateDragIntersect: the hitbox under the pointer counts
\* only if its window is the manager's window and it accepts the drag entity
calculateDragIntersect(winOf, win, dragEntity, over) ==
  IF over # NoEntity /\ WinOfEntity(winOf, over) = win /\ Accepts(over, dragEntity)
  THEN over ELSE NoEntity

\* scroll ticks without the window comparison
ScrollTargetsAnyWindow(winOf, win, near) == {IdOf(s) : s \in near}

\* the scroll entities that receive a tick: those whose edge zone holds the
\* pointer and whose window is the manager's window; ticks carry entity ids
ScrollTargets(winOf, win, near) == {IdOf(s) : s \in {t \in near : winOf[t] = win}}

\* <ScrollContainer id={embed.id}>: a container scrolls on the ticks emitted
\* for its id
Scrolled(ids) == {c \in registered : IdOf(c) \in ids}

\* the surfaces whose rectangle holds the pointer coordinates: surfaces of one
\* window do not overlap, and the hitbox under the pointer lies in its surface
PointerSurfaces(winOf, over) ==
  {near \in SUBSET Inst :
     /\ \A s, t \in near : winOf[s] = winOf[t] => s = t
     /\ over # NoEntity =>
          \A s \in near : winOf[s] = WinOfEntity(winOf, over) => s = InstanceOfEntity(over)}

\* the surface of the manager's window that the pointer intersects
Intersected(winOf, win, over, near) ==
  {s \in near : winOf[s] = win}
  \cup (IF over # NoEntity /\ WinOfEntity(winOf, over) = win
        THEN {InstanceOfEntity(over)} ELSE {})

GestureInit ==
  /\ InitProgram
  /\ \E w \in WindowLayouts :
       probe = [stage |-> "gesture", phase |-> "idle", winOf |-> w, win |-> "A",
                drag |-> NoEntity, over |-> NoEntity, target |-> NoEntity,
                near |-> {}, scrolled |-> {}, moves |-> 0, call |-> "none",
                preBoards |-> boards, preViews |-> viewSettings]

\* Idle -> Dragging: the orchestrator captures the source entity and its window
DragStart ==
  \E dragEntity \in DragEntities \cup HtmlDragEntities :
    /\ probe.phase = "idle"
    /\ probe' = [probe EXCEPT !.phase = "dragging", !.drag = dragEntity,
                               !.win = WinOfEntity(probe.winOf, dragEntity),
                               !.preBoards = boards, !.preViews = viewSettings]
    /\ UNCHANGED <<boards, stateManagers, registered, viewSettings, rendered, last, nDrops, managers, pluginMap, disk, tasks, nEdits>>

\* Dragging: the pointer moves over a hitbox, or none, and into the edge zone
\* of the scroll containers at its coordinates
PointerMove ==
  \E over \in DropEntities \cup {NoEntity} :
    \E near \in PointerSurfaces(probe.winOf, over) :
      /\ probe.phase = "dragging"
      /\ probe.moves < MaxMoves
      /\ probe' = [probe EXCEPT
                     !.moves = @ + 1, !.over = over, !.near = near,
                     !.target = calculateDragIntersect(probe.winOf, probe.win, probe.drag, over),
                     !.scrolled = Scrolled(ScrollTargets(probe.winOf, probe.win, near))]
      /\ UNCHANGED <<boards, stateManagers, registered, viewSettings, rendered, last, nDrops, managers, pluginMap, disk, tasks, nEdits>>

\* Dragging -> Dropped: the pointer is released over a valid intersection
DragEndOnTarget ==
  LET out == HandleDrop(probe.drag, probe.target)
  IN /\ probe.phase = "dragging"
     /\ probe.target # NoEntity
     /\ boards' = out.boards
     /\ viewSettings' = out.viewSettings
     /\ last' = out.last
     /\ nDrops' = nDrops + 1
     /\ probe' = [probe EXCEPT !.phase = "dropped", !.call = "drop"]
     /\ UNCHANGED <<stateManagers, registered, rendered, managers, pluginMap, disk, tasks, nEdits>>

\* Dragging -> Cancelled: released outside any valid target, or cancelled by
\* escape; the handler is not invoked, or is invoked without a drop entity or
\* without a drag entity
DragEndNoTarget ==
  \E call \in {"none", "noDrop", "noDrag"} :
    LET out == IF call = "noDrop" THEN HandleDrop(probe.drag, NoEntity)
               ELSE HandleDrop(NoEntity, probe.target)
    IN /\ probe.phase = "dragging"
       /\ boards' = IF call = "none" THEN boards ELSE out.boards
       /\ viewSettings' = IF call = "none" THEN viewSettings ELSE out.viewSettings
       /\ last' = IF call = "none" THEN last ELSE out.last
       /\ nDrops' = IF call = "none" THEN nDrops ELSE nDrops + 1
       /\ probe' = [probe EXCEPT !.phase = "cancelled", !.call = call]
       /\ UNCHANGED <<stateManagers, registered, rendered, managers, pluginMap, disk, tasks, nEdits>>

GestureNext == DragStart \/ PointerMove \/ DragEndOnTarget \/ DragEndNoTarget

GestureSpec == GestureInit /\ [][GestureNext]_vars

(***************************************************************************)
(* Window registry: mount, unmount, and the instances each window holds    *)
(***************************************************************************)
\* windowRegistry.get(win) of a window that is not mounted
NoRegistry == [mounted |-> FALSE, viewMap |-> {}, embedMap |-> {}]

\* mount(win): an entry with empty maps
MountedRegistry == [mounted |-> TRUE, viewMap |-> {}, embedMap |-> {}]

\* the plugin's tables: the window registry, the documents that have a
\* StateManager and the instances registered with those managers
PluginTables(regs, sms, regd) == [regs |-> regs, stateManagers |-> sms, registered |-> regd]

\* getAllInstances(win)
getAllInstances(regs, win) == regs[win].viewMap \cup regs[win].embedMap

\* unregisterEmbed / unregisterView on the document's StateManager; onEmpty
\* deletes the manager when no instance is left in either set
UnregisterFromDocument(t, i) ==
  IF FileOf(i) \notin t.stateManagers THEN t
  ELSE LET left == t.registered \ {i}
       IN [t EXCEPT !.registered = left,
                    !.stateManagers =
                       IF \E j \in left : FileOf(j) = FileOf(i) THEN @
                       ELSE @ \ {FileOf(i)}]

\* plugin.removeEmbed(embed) / removeView(view): find the window whose map
\* holds the id, delete it there, unregister from the document's manager
removeInstance(t, i) ==
  LET holders == {w \in Windows : i \in getAllInstances(t.regs, w)}
  IN IF holders = {} THEN t
     ELSE LET w == CHOOSE v \in holders : TRUE
              out == [t EXCEPT !.regs[w].viewMap = @ \ {i}, !.regs[w].embedMap = @ \ {i}]
          IN UnregisterFromDocument(out, i)

\* plugin.addEmbed(embed, data, shouldParseData) / addView: nothing happens
\* when the instance's window has no registry
addInstance(t, i, win) ==
  IF ~t.regs[win].mounted THEN t
  ELSE [t EXCEPT !.regs[win].viewMap = IF IsView(i) THEN @ \cup {i} ELSE @,
                 !.regs[win].embedMap = IF IsView(i) THEN @ ELSE @ \cup {i},
                 !.stateManagers = @ \cup {FileOf(i)},
                 !.registered = @ \cup {i}]

\* for (const x of map.values()) this.removeX(x)
RECURSIVE RemoveEach(_, _)
RemoveEach(t, todo) ==
  IF todo = {} THEN t
  ELSE LET i == CHOOSE j \in todo : TRUE
       IN RemoveEach(removeInstance(t, i), todo \ {i})

\* unmount as it was before embeds: views are removed, the maps are cleared
unmountViewsOnly(t, win) ==
  IF ~t.regs[win].mounted THEN t
  ELSE [RemoveEach(t, t.regs[win].viewMap) EXCEPT !.regs[win] = NoRegistry]

\* unmount(win): remove the views, remove the embeds, clear the maps, delete
\* the window's entry
unmount(t, win) ==
  IF ~t.regs[win].mounted THEN t
  ELSE LET views == RemoveEach(t, t.regs[win].viewMap)
           embeds == RemoveEach(views, t.regs[win].embedMap)
       IN [embeds EXCEPT !.regs[win] = NoRegistry]

\* mount(win)
mount(t, win) ==
  IF t.regs[win].mounted THEN t ELSE [t EXCEPT !.regs[win] = MountedRegistry]

Tables == PluginTables(probe.regs, stateManagers, registered)

\* one operation of the window registry: the tables become t, the instances'
\* windows and load states become winOf and loaded; held and pre remember what
\* window win held and which instances were registered before the operation
WindowStep(op, win, t, winOf, loaded) ==
  /\ probe' = [stage |-> "window", op |-> op, win |-> win, regs |-> t.regs,
               winOf |-> winOf, loaded |-> loaded,
               held |-> getAllInstances(probe.regs, win),
               preRegistered |-> registered, preManagers |-> stateManagers]
  /\ registered' = t.registered
  /\ stateManagers' = t.stateManagers
  /\ UNCHANGED <<boards, viewSettings, rendered, last, nDrops, managers, pluginMap, disk, tasks, nEdits>>

\* no window is mounted and no instance is loaded
WindowInit ==
  /\ boards = InitBoards
  /\ stateManagers = {}
  /\ registered = {}
  /\ viewSettings = [i \in Inst |-> [set |-> TRUE, collapse |-> boards[FileOf(i)].collapse]]
  /\ rendered = [boards |-> boards, instances |-> registered]
  /\ last = [route |-> "none", reason |-> "", thrown |-> FALSE,
              drag |-> NoEntity, drop |-> NoEntity, sameFile |-> FALSE,
              sourceInstance |-> NoInstance, destinationInstance |-> NoInstance,
              entityId |-> "", entityType |-> "", finalDropPath |-> <<>>,
              removed |-> FALSE, inserted |-> FALSE,
              pre |-> boards, preViews |-> viewSettings,
              mid |-> boards, midViews |-> viewSettings,
              registered |-> registered, stateManagers |-> stateManagers,
              prior |-> NoPrior]
  /\ nDrops = 0
  /\ InitLife
  /\ \E w \in WindowLayouts :
       probe = [stage |-> "window", op |-> "none", win |-> "A",
                regs |-> [v \in Windows |-> NoRegistry], winOf |-> w,
                loaded |-> {}, held |-> {}, preRegistered |-> {}, preManagers |-> {}]

\* a window opens: mount(win)
MountWindow ==
  \E win \in Windows :
    /\ probe.stage = "window"
    /\ WindowStep("mount", win, mount(Tables, win), probe.winOf, probe.loaded)

\* a window closes: unmount(win)
UnmountWindow ==
  \E win \in Windows :
    /\ probe.stage = "window"
    /\ WindowStep("unmount", win, unmount(Tables, win), probe.winOf, probe.loaded)

\* KanbanEmbed.onload / a panel opens: the instance is added in its window
LoadInstance ==
  \E i \in Inst \ probe.loaded :
    WindowStep("load", probe.winOf[i], addInstance(Tables, i, probe.winOf[i]),
               probe.winOf, probe.loaded \cup {i})

\* KanbanEmbed.onunload / the panel closes
UnloadInstance ==
  \E i \in probe.loaded :
    WindowStep("unload", probe.winOf[i], removeInstance(Tables, i),
               probe.winOf, probe.loaded \ {i})

\* the embeds created for Live Preview: KanbanLivePreviewEmbed
LivePreviewEmbeds == {"e2"}

\* onWindowMigrated: plugin.removeEmbed(this); plugin.addEmbed(this, data, false)
MigrateInstance ==
  \E i \in probe.loaded \ LivePreviewEmbeds, win \in Windows :
    /\ win # probe.winOf[i]
    /\ WindowStep("migrate", win, addInstance(removeInstance(Tables, i), i, win),
                  [probe.winOf EXCEPT ![i] = win], probe.loaded)

\* the surface of a KanbanLivePreviewEmbed moves to another window: loadFile
\* registers no onWindowMigrated callback, so only getWindow() changes
MigrateLivePreviewEmbed ==
  \E i \in probe.loaded \cap LivePreviewEmbeds, win \in Windows :
    /\ win # probe.winOf[i]
    /\ WindowStep("migrate", win, Tables, [probe.winOf EXCEPT ![i] = win], probe.loaded)

WindowNext ==
  \/ MountWindow
  \/ UnmountWindow
  \/ LoadInstance
  \/ UnloadInstance
  \/ MigrateInstance
  \/ MigrateLivePreviewEmbed

WindowSpec == WindowInit /\ [][WindowNext]_vars

(***************************************************************************)
(* EmbedKanban: what an embed renders for the board state it is handed,    *)
(* and the archive-trim effect that runs after each render                 *)
(***************************************************************************)
\* entries of board.data.archive
MaxArchive == 3

\* 'max-archive-size': -1 stands for both undefined and -1 (no limit)
ArchiveLimits == {-1, 0, 1, 2}

\* stateManager.useState() before a board was parsed
LoadingBoard == [parsed |-> FALSE, archive |-> 0, errors |-> FALSE]

\* what the component returns for the board data it is handed
EmbedKanbanView(boardData) ==
  IF ~boardData.parsed THEN "loading"
  ELSE IF boardData.errors THEN "error"
  ELSE "board"

\* the dependency list of the effect: [boardData?.data.archive.length, maxArchiveLength]
EffectDeps(boardData, maxArchiveLength) ==
  <<IF boardData.parsed THEN boardData.archive ELSE -1, maxArchiveLength>>

\* board.data.archive.slice(maxArchiveLength * -1).length
SliceLength(len, maxArchiveLength) ==
  IF maxArchiveLength = 0 \/ len < maxArchiveLength THEN len ELSE maxArchiveLength

\* the body of the archive-trim effect: whether it calls stateManager.setState
ArchiveTrimCalls(boardData, maxArchiveLength) ==
  /\ maxArchiveLength # -1
  /\ boardData.parsed
  /\ boardData.archive > maxArchiveLength

NoCall == [n |-> 0, by |-> "", cause |-> "", inError |-> FALSE, view |-> ""]

RenderInit ==
  /\ InitProgram
  /\ probe = [stage |-> "render", board |-> LoadingBoard, max |-> -1,
              view |-> [e \in Embeds |-> "unmounted"],
              deps |-> [e \in Embeds |-> <<>>],
              saw |-> [e \in Embeds |-> FALSE],
              call |-> NoCall]

\* one render of an embed's component followed by its effects: the effect
\* runs on mount and whenever its dependency list differs from the last one;
\* saw remembers whether the board data of this render had errors
EmbedKanbanRender ==
  \E e \in Embeds :
    LET boardData == probe.board
        deps == EffectDeps(boardData, probe.max)
        calls == deps # probe.deps[e] /\ ArchiveTrimCalls(boardData, probe.max)
    IN /\ probe.stage = "render"
       /\ \/ probe.view[e] # EmbedKanbanView(boardData)
          \/ probe.deps[e] # deps
          \/ probe.saw[e] # (boardData.parsed /\ boardData.errors)
       /\ probe' = [probe EXCEPT
                      !.view[e] = EmbedKanbanView(boardData),
                      !.deps[e] = deps,
                      !.saw[e] = boardData.parsed /\ boardData.errors,
                      !.board.archive = IF calls THEN SliceLength(@, probe.max) ELSE @,
                      !.call = IF calls
                               THEN [n |-> 1, by |-> e, cause |-> "effect",
                                     inError |-> boardData.errors,
                                     view |-> EmbedKanbanView(boardData)]
                               ELSE NoCall]
       /\ UNCHANGED <<boards, stateManagers, registered, viewSettings, rendered, last, nDrops, managers, pluginMap, disk, tasks, nEdits>>

\* the board is parsed, or parsed again after the file changed: the errors of
\* the previous state are gone
ParseBoard ==
  \E n \in 0..MaxArchive :
    /\ probe.stage = "render"
    /\ probe' = [probe EXCEPT !.board = [parsed |-> TRUE, archive |-> n, errors |-> FALSE],
                              !.call = NoCall]
    /\ UNCHANGED <<boards, stateManagers, registered, viewSettings, rendered, last, nDrops, managers, pluginMap, disk, tasks, nEdits>>

\* stateManager.setError(e): a parse, an updater or a save failed
SetError ==
  /\ probe.stage = "render"
  /\ probe.board.parsed
  /\ ~probe.board.errors
  /\ probe' = [probe EXCEPT !.board.errors = TRUE, !.call = NoCall]
  /\ UNCHANGED <<boards, stateManagers, registered, viewSettings, rendered, last, nDrops, managers, pluginMap, disk, tasks, nEdits>>

\* the user archives a card on an embed that shows the board
ArchiveCard ==
  \E e \in Embeds :
    /\ probe.stage = "render"
    /\ probe.view[e] = "board"
    /\ EmbedKanbanView(probe.board) = "board"
    /\ probe.board.archive < MaxArchive
    /\ probe' = [probe EXCEPT !.board.archive = @ + 1,
                              !.call = [n |-> 1, by |-> e, cause |-> "user",
                                        inError |-> probe.board.errors,
                                        view |-> probe.view[e]]]
    /\ UNCHANGED <<boards, stateManagers, registered, viewSettings, rendered, last, nDrops, managers, pluginMap, disk, tasks, nEdits>>

\* the 'max-archive-size' setting changes
ChangeArchiveLimit ==
  \E m \in ArchiveLimits :
    /\ probe.stage = "render"
    /\ m # probe.max
    /\ probe' = [probe EXCEPT !.max = m, !.call = NoCall]
    /\ UNCHANGED <<boards, stateManagers, registered, viewSettings, rendered, last, nDrops, managers, pluginMap, disk, tasks, nEdits>>

RenderNext ==
  EmbedKanbanRender \/ ParseBoard \/ SetError \/ ArchiveCard \/ ChangeArchiveLimit

RenderSpec == RenderInit /\ [][RenderNext]_vars

(***************************************************************************)
(* Loading an embed: onload / loadFile are suspended at the file read and  *)
(* resume after it, whatever happened to the embed in the meantime         *)
(***************************************************************************)
\* onload / loadFile calls of one embed in one behaviour
MaxLoads == 3

\* a KanbanEmbed and a KanbanLivePreviewEmbed
LoadEmbeds == {"e1", "e2"}

\* an embed before Obsidian loads it: comp is Component._loaded, loaded the
\* private flag of KanbanLivePreviewEmbed, stale and fresh the continuations
\* waiting for vault.read that were started before and after the last
\* onunload, inMap whether a window registry and the document's StateManager
\* hold the embed; calls, adds, freshAdds and unloaded count what happened
\* since the last onunload
NewEmbed ==
  [comp |-> FALSE, loaded |-> FALSE, stale |-> 0, fresh |-> 0, inMap |-> FALSE,
   total |-> 0, calls |-> 0, adds |-> 0, freshAdds |-> 0, unloaded |-> FALSE]

\* loadFile without the loaded flag
loadFileUnguarded(em) == [em EXCEPT !.fresh = @ + 1]

\* KanbanLivePreviewEmbed.loadFile up to the await: if (this.loaded) return;
\* this.loaded = true; await vault.read(file)
loadFile(em) ==
  IF em.loaded THEN em ELSE [em EXCEPT !.loaded = TRUE, !.fresh = @ + 1]

\* KanbanEmbed.onload up to the await: await vault.read(file)
onloadStart(e, em) ==
  IF e \in LivePreviewEmbeds THEN loadFile(em) ELSE [em EXCEPT !.fresh = @ + 1]

\* the rest of onload / loadFile after the read: plugin.addEmbed(this, data, true)
addAfterRead(em, isFresh) ==
  [em EXCEPT !.inMap = TRUE,
             !.stale = IF isFresh THEN @ ELSE @ - 1,
             !.fresh = IF isFresh THEN @ - 1 ELSE @,
             !.adds = @ + 1,
             !.freshAdds = IF isFresh THEN @ + 1 ELSE @]

\* onunload: plugin.removeEmbed(this); KanbanLivePreviewEmbed also resets
\* this.loaded; the continuations still waiting are not cancelled
onunloadEmbed(e, em) ==
  [em EXCEPT !.comp = FALSE, !.inMap = FALSE,
             !.loaded = IF e \in LivePreviewEmbeds THEN FALSE ELSE @,
             !.stale = @ + em.fresh, !.fresh = 0,
             !.calls = 0, !.adds = 0, !.freshAdds = 0, !.unloaded = TRUE]

LoadStep(op, e, em) ==
  /\ probe' = [probe EXCEPT !.op = op, !.embed = e, !.embeds[e] = em]
  /\ UNCHANGED <<boards, stateManagers, registered, viewSettings, rendered, last, nDrops, managers, pluginMap, disk, tasks, nEdits>>

LoadInit ==
  /\ InitProgram
  /\ probe = [stage |-> "load", op |-> "none", embed |-> "e1",
              embeds |-> [e \in LoadEmbeds |-> NewEmbed]]

\* Obsidian loads the component: Component.load() calls onload() once
ComponentLoad ==
  \E e \in LoadEmbeds :
    /\ probe.stage = "load"
    /\ ~probe.embeds[e].comp
    /\ probe.embeds[e].total < MaxLoads
    /\ LoadStep("onload", e,
         [onloadStart(e, probe.embeds[e]) EXCEPT !.comp = TRUE, !.calls = @ + 1,
                                                  !.total = @ + 1])

\* the embed registry calls loadFile() on a Live Preview embed
EmbedRegistryLoadFile ==
  \E e \in LoadEmbeds \cap LivePreviewEmbeds :
    /\ probe.stage = "load"
    /\ probe.embeds[e].total < MaxLoads
    /\ LoadStep("loadFile", e,
         [loadFile(probe.embeds[e]) EXCEPT !.calls = @ + 1, !.total = @ + 1])

\* vault.read resolves for one waiting continuation
ReadResolves ==
  \E e \in LoadEmbeds, isFresh \in BOOLEAN :
    /\ probe.stage = "load"
    /\ IF isFresh THEN probe.embeds[e].fresh > 0 ELSE probe.embeds[e].stale > 0
    /\ LoadStep("read", e, addAfterRead(probe.embeds[e], isFresh))

\* Obsidian unloads the component: Component.unload() calls onunload()
ComponentUnload ==
  \E e \in LoadEmbeds :
    /\ probe.stage = "load"
    /\ probe.embeds[e].comp
    /\ LoadStep("onunload", e, onunloadEmbed(e, probe.embeds[e]))

LoadNext == ComponentLoad \/ EmbedRegistryLoadFile \/ ReadResolves \/ ComponentUnload

LoadSpec == LoadInit /\ [][LoadNext]_vars

(***************************************************************************)
(* Renaming the file behind an embed: the id is computed from file.path    *)
(* each time it is read, the embedMap key is the id at addEmbed time       *)
(***************************************************************************)
\* renames in one behaviour
MaxRenames == 2

\* the paths a board file can have
FilePaths == {"x.md", "y.md", "z.md"}

\* the embeds of this specification: both are KanbanEmbeds
RenameEmbeds == {"e1", "e2"}

\* get id(): `embed-${this.instanceId}:::${this.file.path}`
CurrentId(e, paths) == <<"embed", e, paths[FileOf(e)]>>

\* reg.embedMap.has(embed.id)
EmbedMapHas(embedMap, id) == \E entry \in embedMap : entry.key = id

\* plugin.addEmbed in a mounted window: if (!reg.embedMap.has(embed.id))
\* reg.embedMap.set(embed.id, embed); then registerEmbed on the manager
addEmbedById(r, e) ==
  [r EXCEPT !.embedMap = IF EmbedMapHas(@, CurrentId(e, r.paths)) THEN @
                         ELSE @ \cup {[key |-> CurrentId(e, r.paths), embed |-> e]},
            !.registered = @ \cup {e}]

\* plugin.removeEmbed: the window whose embedMap has embed.id; if (!entry)
\* return; delete the key, unregisterEmbed on the manager
removeEmbedById(r, e) ==
  IF ~EmbedMapHas(r.embedMap, CurrentId(e, r.paths)) THEN r
  ELSE [r EXCEPT !.embedMap = {entry \in @ : entry.key # CurrentId(e, r.paths)},
                 !.registered = @ \ {e}]

\* vault rename: the TFile's path changes; the rename listener of an embed
\* of that file keeps this.file on the renamed TFile and touches no registry
renameFile(r, f, path) == [r EXCEPT !.paths[f] = path]

RenameStep(op, e, r) ==
  /\ probe' = [r EXCEPT !.op = op, !.embed = e]
  /\ UNCHANGED <<boards, stateManagers, registered, viewSettings, rendered, last, nDrops, managers, pluginMap, disk, tasks, nEdits>>

RenameInit ==
  /\ InitProgram
  /\ probe = [stage |-> "rename", op |-> "none", embed |-> "e1",
              paths |-> [f \in {FileOf(e) : e \in RenameEmbeds} |->
                           IF f = FileOf("e1") THEN "x.md" ELSE "y.md"],
              embedMap |-> {}, registered |-> {}, loaded |-> {}, renames |-> 0]

\* KanbanEmbed.onload after the read
RenameLoad ==
  \E e \in RenameEmbeds \ probe.loaded :
    /\ probe.stage = "rename"
    /\ RenameStep("load", e, [addEmbedById(probe, e) EXCEPT !.loaded = @ \cup {e}])

\* KanbanEmbed.onunload
RenameUnload ==
  \E e \in probe.loaded :
    /\ probe.stage = "rename"
    /\ RenameStep("unload", e, [removeEmbedById(probe, e) EXCEPT !.loaded = @ \ {e}])

\* onWindowMigrated: removeEmbedById(this); addEmbedById(this, data, false)
RenameMigrate ==
  \E e \in probe.loaded :
    /\ probe.stage = "rename"
    /\ RenameStep("migrate", e, addEmbedById(removeEmbedById(probe, e), e))

\* the user renames a board file
RenameFile ==
  \E f \in DOMAIN probe.paths, path \in FilePaths :
    /\ probe.stage = "rename"
    /\ probe.renames < MaxRenames
    /\ \A g \in DOMAIN probe.paths : probe.paths[g] # path
    /\ RenameStep("rename", probe.embed, [renameFile(probe, f, path) EXCEPT !.renames = @ + 1])

RenameNext == RenameLoad \/ RenameUnload \/ RenameMigrate \/ RenameFile

RenameSpec == RenameInit /\ [][RenameNext]_vars

(***************************************************************************)
(* Cross-board drops whose two updaters run later than the call that made  *)
(* them: "the destination mutation may be scheduled asynchronously         *)
(* relative to further user input", "when a deferred step executes"        *)
(***************************************************************************)
\* cross-board drops in one behaviour
MaxDeferred == 2

\* the outcome of the two steps of one drop, before either has run
NotRun == [removal |-> "pending", insertion |-> "pending"]

\* steps 2 and 3 of handleDrop as the two updaters it hands to setState, with
\* what they close over: instances, dragPath, entityId, finalDropPath, toInsert
Updaters(n, sourceInstance, destinationInstance, dragPath, entity, finalDropPath, toInsert) ==
  LET closure == [n |-> n, sourceInstance |-> sourceInstance,
                  destinationInstance |-> destinationInstance, dragPath |-> dragPath,
                  entityId |-> entity.id, entityType |-> entity.type,
                  finalDropPath |-> finalDropPath, toInsert |-> toInsert]
  IN << closure @@ [step |-> "remove"], closure @@ [step |-> "insert"] >>

\* handleDrop, cross-board branch up to the two setState calls: the lookups,
\* the captured entity, the final drop path and what to insert
DeferredUpdaters(n, dragEntity, dropEntity) ==
  LET sourceInstance == getKanbanInstance(registered, dragEntity.scopeId)
      destinationInstance == getKanbanInstance(registered, dropEntity.scopeId)
  IN IF \/ InstanceMissing(sourceInstance, destinationInstance)
        \/ StateManagerMissing(stateManagers, sourceInstance, destinationInstance)
     THEN <<>>
     ELSE LET sourceBoard == boards[FileOf(sourceInstance)]
              destinationBoard == boards[FileOf(destinationInstance)]
              entity == getEntityFromPath(sourceBoard, dragEntity.path)
              final == CrossFinalDropPath(destinationBoard, dropEntity.path,
                                          InDropArea(dragEntity, dropEntity))
          IN IF entity = Null \/ ~final.ok THEN <<>>
             ELSE Updaters(n, sourceInstance, destinationInstance, dragEntity.path,
                           entity, final.path,
                           ToInsert(sourceBoard, dragEntity.path, destinationBoard,
                                    final.path, entity))

\* the updater at the head of the queue, applied to the boards of the moment
RunUpdater(u) ==
  IF u.step = "remove"
  THEN SourceRemovalUpdater(boards, stateManagers, registered, viewSettings,
                            u.sourceInstance, u.dragPath, u.entityId, u.entityType)
  ELSE DestinationInsertUpdater(boards, stateManagers, registered, viewSettings,
                                u.sourceInstance, u.destinationInstance, u.dragPath,
                                u.finalDropPath, u.toInsert, u.entityType)

\* what a step did: skipped, threw, or applied
StepOutcome(res) == IF res.skipped THEN "skipped" ELSE IF res.ok THEN "applied" ELSE "threw"

DeferredInit ==
  /\ InitProgram
  /\ probe = [stage |-> "deferred", drops |-> 0, queue |-> <<>>,
              outcome |-> [n \in 1..MaxDeferred |-> NotRun]]

\* a drop from one board onto another: the two updaters are queued
DeferredDrop ==
  \E dragEntity \in DragEntities, dropEntity \in DropEntities :
    LET queued == DeferredUpdaters(probe.drops + 1, dragEntity, dropEntity)
    IN /\ probe.stage = "deferred"
       /\ probe.drops < MaxDeferred
       /\ Accepts(dropEntity, dragEntity)
       /\ ~SameFile(dragEntity.scopeId, dropEntity.scopeId)
       /\ queued # <<>>
       /\ probe' = [probe EXCEPT !.drops = @ + 1, !.queue = @ \o queued]
       /\ UNCHANGED <<boards, stateManagers, registered, viewSettings, rendered, last, nDrops, managers, pluginMap, disk, tasks, nEdits>>

\* setState runs the oldest queued updater
DeferredStep ==
  /\ probe.stage = "deferred"
  /\ probe.queue # <<>>
  /\ LET u == Head(probe.queue)
         res == RunUpdater(u)
         file == IF u.step = "remove" THEN FileOf(u.sourceInstance)
                 ELSE FileOf(u.destinationInstance)
     IN /\ boards' = setState(boards, file, res)
        /\ viewSettings' = res.vs
        /\ probe' = [probe EXCEPT
                       !.queue = Tail(@),
                       !.outcome[u.n] =
                          IF u.step = "remove" THEN [@ EXCEPT !.removal = StepOutcome(res)]
                          ELSE [@ EXCEPT !.insertion = StepOutcome(res)]]
  /\ UNCHANGED <<stateManagers, registered, rendered, last, nDrops, managers, pluginMap, disk, tasks, nEdits>>

DeferredNext == DeferredDrop \/ DeferredStep

DeferredSpec == DeferredInit /\ [][DeferredNext]_vars

(***************************************************************************)
(* BoardRenderer.prerender and the preview queue: a prerender call waits   *)
(* for 'queueEmpty', which the queue's onComplete and onunload emit        *)
(***************************************************************************)
\* prerender calls on one renderer in one behaviour
MaxPrerenders == 2

\* items without a cached preview that one prerender call can add
MaxNewItems == 2

\* a renderer after construction: queue counts the items added and not yet
\* rendered, isRunning is previewQueue.isRunning, inflight whether a run() of
\* the queue is under way, pending the prerender calls that have not resolved,
\* listeners the once('queueEmpty') listeners on the emitter
NewRenderer ==
  [queue |-> 0, isRunning |-> FALSE, inflight |-> FALSE, pending |-> 0,
   listeners |-> 0, unloaded |-> FALSE, calls |-> 0, byDrain |-> 0, byUnload |-> 0]

\* previewQueue.add(item), k times: the first add starts run() unless the
\* queue is running
previewQueueAdd(rd, k) ==
  IF k = 0 THEN rd
  ELSE [rd EXCEPT !.queue = @ + k, !.isRunning = TRUE, !.inflight = TRUE]

\* previewQueue.clear()
previewQueueClear(rd) == [rd EXCEPT !.queue = 0, !.isRunning = FALSE]

\* this.emitter.emit('queueEmpty'): every once-listener runs and is removed,
\* resolving the prerender call that registered it
emitQueueEmpty(rd, cause) ==
  [rd EXCEPT !.pending = @ - rd.listeners, !.listeners = 0,
             !.byDrain = IF cause = "drain" THEN @ + rd.listeners ELSE @,
             !.byUnload = IF cause = "unload" THEN @ + rd.listeners ELSE @]

\* this.emitter.removeAllListeners()
removeAllListeners(rd) == [rd EXCEPT !.listeners = 0]

\* prerender(board) with k items that have no cached preview: the items are
\* queued; if (this.previewQueue.isRunning) the call waits for 'queueEmpty',
\* otherwise it resolves at once
prerender(rd, k) ==
  LET added == previewQueueAdd(rd, k)
  IN IF added.isRunning
     THEN [added EXCEPT !.pending = @ + 1, !.listeners = @ + 1, !.calls = @ + 1]
     ELSE [added EXCEPT !.calls = @ + 1]

\* onunload that removes the listeners before it emits
onunloadRemovesListenersFirst(rd) ==
  [emitQueueEmpty(removeAllListeners(previewQueueClear(rd)), "unload") EXCEPT !.unloaded = TRUE]

\* BoardRenderer.onunload: previewQueue.clear(); previewCache.clear();
\* emitter.emit('queueEmpty'); emitter.removeAllListeners()
rendererOnunload(rd) ==
  [removeAllListeners(emitQueueEmpty(previewQueueClear(rd), "unload")) EXCEPT !.unloaded = TRUE]

PrerenderStep(op, r, rd) ==
  /\ probe' = [probe EXCEPT !.op = op, !.renderer = r, !.renderers[r] = rd]
  /\ UNCHANGED <<boards, stateManagers, registered, viewSettings, rendered, last, nDrops, managers, pluginMap, disk, tasks, nEdits>>

PrerenderInit ==
  /\ InitProgram
  /\ probe = [stage |-> "prerender", op |-> "none", renderer |-> "rendA",
              renderers |-> [r \in Renderers |-> NewRenderer]]

\* the component asks for the previews of a board
CallPrerender ==
  \E r \in Renderers, k \in 0..MaxNewItems :
    /\ probe.stage = "prerender"
    /\ ~probe.renderers[r].unloaded
    /\ probe.renderers[r].calls < MaxPrerenders
    /\ PrerenderStep("prerender", r, prerender(probe.renderers[r], k))

\* the preview of the item at the head of the queue has rendered
PreviewRendered(r) ==
  /\ probe.stage = "prerender"
  /\ probe.renderers[r].inflight
  /\ probe.renderers[r].queue > 0
  /\ PrerenderStep("rendered", r, [probe.renderers[r] EXCEPT !.queue = @ - 1])

\* run() finds the queue empty: isRunning = false; onComplete()
QueueComplete(r) ==
  /\ probe.stage = "prerender"
  /\ probe.renderers[r].inflight
  /\ probe.renderers[r].queue = 0
  /\ PrerenderStep("complete", r,
       emitQueueEmpty([probe.renderers[r] EXCEPT !.inflight = FALSE, !.isRunning = FALSE],
                      "drain"))

\* the embed goes away: BoardRenderer.onunload
RendererUnload ==
  \E r \in Renderers :
    /\ probe.stage = "prerender"
    /\ ~probe.renderers[r].unloaded
    /\ PrerenderStep("onunload", r, rendererOnunload(probe.renderers[r]))

QueueProgress ==
  \E r \in Renderers :
    /\ probe.stage = "prerender"
    /\ PreviewRendered(r)

QueueDrains ==
  \E r \in Renderers :
    /\ probe.stage = "prerender"
    /\ QueueComplete(r)

PrerenderNext == CallPrerender \/ QueueProgress \/ QueueDrains \/ RendererUnload

\* a started preview render finishes and a run() that has nothing left to do
\* returns: the queue is driven by promises that settle
PrerenderSpec ==
  /\ PrerenderInit
  /\ [][PrerenderNext]_vars
  /\ \A r \in Renderers : WF_vars(PreviewRendered(r)) /\ WF_vars(QueueComplete(r))

(***************************************************************************)
(* populateViewState and getViewState of an embed or a renderer, for both  *)
(* keys of the view state; a missing value is Undefined                    *)
(***************************************************************************)
\* populateViewState, setViewState and getViewState calls in one behaviour
MaxViewCalls == 4

ViewKeys == {"kanban-plugin", "list-collapse"}

\* the values a key can hold: a board format, or one collapse flag per lane
KeyValues(key) ==
  IF key = "kanban-plugin" THEN {Defined(<<"board">>), Defined(<<"list">>)}
  ELSE {Defined(<<>>), Defined(<<TRUE>>), Defined(<<FALSE>>)}

\* a ?? b
NullishCoalesce(a, b) == IF a.def THEN a ELSE b

\* settings[key] || 'board', settings[key] || []
SettingOrDefault(settings, key) ==
  IF settings[key].def THEN settings[key]
  ELSE IF key = "kanban-plugin" THEN Defined(<<"board">>)
  ELSE Defined(<<>>)

\* populateViewState with = in place of ??=
populateViewStateAssigns(own, settings) ==
  [key \in ViewKeys |-> SettingOrDefault(settings, key)]

\* populateViewState(settings): this.viewSettings[key] ??= settings[key] || default
populateViewState(own, settings) ==
  [key \in ViewKeys |-> NullishCoalesce(own[key], SettingOrDefault(settings, key))]

\* getViewState(key): this.viewSettings[key] ?? stateManager.getSetting(key)
getViewStateOfKey(own, settings, key) == NullishCoalesce(own[key], settings[key])

ViewStateStep(op, key, own, settings, got) ==
  /\ probe' = [stage |-> "populate", op |-> op, key |-> key, own |-> own,
               settings |-> settings, pre |-> probe.own, got |-> got,
               n |-> probe.n + 1,
               populated |-> IF op = "populate" THEN probe.populated + 1 ELSE probe.populated]
  /\ UNCHANGED <<boards, stateManagers, registered, viewSettings, rendered, last, nDrops, managers, pluginMap, disk, tasks, nEdits>>

\* viewSettings: KanbanViewSettings = {}; the board's settings may lack a key
PopulateInit ==
  /\ InitProgram
  /\ \E settings \in [ViewKeys -> {Undefined}] \cup {[key \in ViewKeys |-> Defined(IF key = "kanban-plugin" THEN <<"list">> ELSE <<TRUE>>)]} :
       probe = [stage |-> "populate", op |-> "none", key |-> "list-collapse",
                own |-> [key \in ViewKeys |-> Undefined], settings |-> settings,
                pre |-> [key \in ViewKeys |-> Undefined], got |-> Undefined,
                n |-> 0, populated |-> 0]

\* registration, or re-registration after a window migration
PopulateViewState ==
  /\ probe.stage = "populate"
  /\ probe.n < MaxViewCalls
  /\ ViewStateStep("populate", probe.key, populateViewState(probe.own, probe.settings),
                   probe.settings, probe.got)

\* setViewState(key, val) with a value
SetOwnValue ==
  \E key \in ViewKeys :
    \E val \in KeyValues(key) :
      /\ probe.stage = "populate"
      /\ probe.n < MaxViewCalls
      /\ ViewStateStep("set", key, [probe.own EXCEPT ![key] = val], probe.settings, probe.got)

\* the board's setting of a key changes
ChangeBoardSetting ==
  \E key \in ViewKeys :
    \E val \in KeyValues(key) \cup {Undefined} :
      /\ probe.stage = "populate"
      /\ probe.n < MaxViewCalls
      /\ val # probe.settings[key]
      /\ ViewStateStep("setting", key, probe.own, [probe.settings EXCEPT ![key] = val], probe.got)

\* getViewState(key)
GetViewState ==
  \E key \in ViewKeys :
    /\ probe.stage = "populate"
    /\ probe.n < MaxViewCalls
    /\ ViewStateStep("get", key, probe.own, probe.settings,
                     getViewStateOfKey(probe.own, probe.settings, key))

PopulateNext == PopulateViewState \/ SetOwnValue \/ ChangeBoardSetting \/ GetViewState

PopulateSpec == PopulateInit /\ [][PopulateNext]_vars

(***************************************************************************)
(* Properties of handleDrop, stated over the record of the latest call     *)
(***************************************************************************)
SourceFile == FileOf(last.sourceInstance)

DestinationFile == FileOf(last.destinationInstance)

\* a cross-board call that got past the lookups and captured an entity
CrossHandled == last.route = "cross" /\ ~last.thrown

ItemIds(board) ==
  UNION {{board.lanes[l].children[k].id : k \in 1..Len(board.lanes[l].children)} :
           l \in 1..Len(board.lanes)}

\* C1: after a cross-document drop the moved id occurs exactly once in the
\* destination board, not at all in the source board, and the number of items
\* summed over both boards is what it was before the drop
C1_CrossDropConserves ==
  CrossHandled =>
    /\ Occurrences(boards[DestinationFile], last.entityId) = 1
    /\ Occurrences(boards[SourceFile], last.entityId) = 0
    /\ ItemCount(boards[SourceFile]) + ItemCount(boards[DestinationFile])
         = ItemCount(last.pre[SourceFile]) + ItemCount(last.pre[DestinationFile])

\* two consecutive cross-board calls made with the same drag entity (same
\* scope, same recorded path, same item id), the first of which removed it
SameItemTwice ==
  /\ last.route = "cross"
  /\ last.prior.route = "cross"
  /\ last.drag = last.prior.drag
  /\ last.drag.type = "item"
  /\ last.prior.removed

\* C2: when two drops move the same item out of board X, the second removal
\* is skipped; X loses that item once and keeps every other item
C2_SecondRemovalSkipped ==
  SameItemTwice =>
    /\ ~last.removed
    /\ Occurrences(boards[SourceFile], last.drag.id) = 0
    /\ \A id \in ItemIds(last.prior.pre[SourceFile]) \ {last.drag.id} :
         Occurrences(boards[SourceFile], id) = 1

\* ids of a lane together with the items it holds, or of a single item
ContainedIds(entity) ==
  IF entity = Null THEN {}
  ELSE IF entity.type = "lane"
  THEN {entity.id} \cup {entity.children[k].id : k \in 1..Len(entity.children)}
  ELSE {entity.id}

AllIds(board) ==
  {board.lanes[l].id : l \in 1..Len(board.lanes)} \cup ItemIds(board)

\* the entity found at the recorded drag path when the removal step ran
AtDragPath == getEntityFromPath(last.pre[SourceFile], last.drag.path)

LookupFailed ==
  /\ last.route # "none"
  /\ \/ getKanbanInstance(last.registered, last.drag.scopeId) = NoInstance
     \/ /\ ~last.sameFile
        /\ getKanbanInstance(last.registered, last.drop.scopeId) = NoInstance
     \/ FileOf(getKanbanInstance(last.registered, last.drag.scopeId))
          \notin last.stateManagers
     \/ /\ ~last.sameFile
        /\ FileOf(getKanbanInstance(last.registered, last.drop.scopeId))
             \notin last.stateManagers

DropBoard ==
  IF last.sameFile THEN last.pre[SourceFile] ELSE last.pre[DestinationFile]

\* the drag path names no entity, or the drop path names a container that the
\* board does not hold
UnresolvedPath ==
  /\ last.route \in {"same", "cross", "abort"}
  /\ ~LookupFailed
  /\ \/ AtDragPath = Null
     \/ ~ParentResolves(DropBoard, last.drop.path)
     \/ /\ InDropArea(last.drag, last.drop)
        /\ getEntityFromPath(DropBoard, last.drop.path) = Null

\* C7: a drop whose drag path or drop path does not resolve in the current
\* board is aborted: no exception leaves handleDrop and no board changes
C7_UnresolvedPathAborts ==
  UnresolvedPath =>
    /\ ~last.thrown
    /\ \A d \in Docs : /\ boards[d].lanes = last.pre[d].lanes
                       /\ boards[d].collapse = last.pre[d].collapse

\* C8: the same-board path is taken exactly when both scope ids carry the same
\* document path, whatever characters the paths hold
C8_RouteByDocument ==
  probe.stage = "out" => (probe.route = "same" <=> probe.dragPath = probe.dropPath)

\* C9: splitting discriminant + ':::' + path gives back the discriminant and
\* the path, and the file handleDrop reads from the id is the path
C9_SplitRoundTrip ==
  probe.stage = "out" =>
    /\ probe.parts = <<probe.dragDisc, probe.dragPath>>
    /\ probe.file = Defined(probe.dragPath)

\* the collapse array an instance reads has one entry per lane of its board
CollapseMatches(vs, bds, i) ==
  LET state == getViewState(vs, bds, last.stateManagers, i)
  IN state.def /\ Len(state.val) = LaneCount(bds[FileOf(i)])

\* the instances of the latest call: the one of the drag scope and, when
\* registered, the one of the drop scope
DropInstances == {last.sourceInstance, last.destinationInstance} \ {NoInstance}

LaneDrop ==
  /\ last.route \in {"same", "cross"}
  /\ ~last.thrown
  /\ last.entityType = "lane"

\* C10: after a lane drop the collapse arrays of the source instance and of
\* the destination instance are as long as their boards have lanes, provided
\* they were before the drop
C10_CollapseLength ==
  (LaneDrop /\ \A i \in DropInstances : CollapseMatches(last.preViews, last.pre, i))
    => \A i \in DropInstances : CollapseMatches(viewSettings, boards, i)

C10_LaneTransferred ==
  /\ LaneDrop
  /\ last.route = "cross"
  /\ last.removed
  /\ last.inserted
  /\ \A i \in DropInstances : CollapseMatches(last.preViews, last.pre, i)
  /\ LaneCount(boards[DestinationFile]) = LaneCount(last.pre[DestinationFile]) + 1

\* a cross-board lane drop that removed the lane and inserted it, made while
\* both instances had one collapse flag per lane
LaneTransfer ==
  /\ LaneDrop
  /\ last.route = "cross"
  /\ last.removed
  /\ last.inserted
  /\ \A i \in DropInstances : CollapseMatches(last.preViews, last.pre, i)

\* the collapse array an instance read before / reads after the latest call
CollapseBefore(i) == getViewState(last.preViews, last.pre, last.stateManagers, i).val

CollapseAfter(i) == getViewState(viewSettings, boards, last.stateManagers, i).val

\* where the lane landed among the lanes of the destination board
LandedAt ==
  CHOOSE k \in 1..Len(boards[DestinationFile].lanes) :
    boards[DestinationFile].lanes[k].id = last.entityId

\* C11: in a cross-board lane drop the flag that enters the destination
\* instance's collapse array at the insertion index is the flag the lane had in
\* the source instance's array before the drop, and that entry leaves the
\* source instance's array
C11_CollapseTransplanted ==
  LaneTransfer =>
    /\ CollapseAfter(last.destinationInstance)[LandedAt]
         = CollapseBefore(last.sourceInstance)[Last(last.drag.path) + 1]
    /\ CollapseAfter(last.sourceInstance)
         = SpliceOut(CollapseBefore(last.sourceInstance), Last(last.drag.path))

\* index (1-based) of the lane with this id among the lanes, 0 when absent
LaneIndex(board, id) ==
  IF \E k \in 1..Len(board.lanes) : board.lanes[k].id = id
  THEN CHOOSE k \in 1..Len(board.lanes) : board.lanes[k].id = id
  ELSE 0

\* a same-board lane drop made while the acting instance had one flag per lane
LaneReorder ==
  /\ LaneDrop
  /\ last.route = "same"
  /\ last.inserted
  /\ CollapseMatches(last.preViews, last.pre, last.sourceInstance)

\* C12: in a same-board lane drop the acting instance's collapse array is
\* permuted like the lanes: each lane's flag is at the lane's new index
C12_CollapseFollowsLanes ==
  LaneReorder =>
    /\ Len(CollapseAfter(last.sourceInstance)) = LaneCount(boards[SourceFile])
    /\ \A k \in 1..Len(boards[SourceFile].lanes) :
         CollapseAfter(last.sourceInstance)[k]
           = CollapseBefore(last.sourceInstance)
               [LaneIndex(last.pre[SourceFile], boards[SourceFile].lanes[k].id)]

C12_LaneMoved ==
  /\ LaneReorder
  /\ boards[SourceFile].lanes # last.pre[SourceFile].lanes
  /\ CollapseAfter(last.sourceInstance) # CollapseBefore(last.sourceInstance)

\* C13: setViewState with a value changes only the caller's copy; with an
\* updater it applies the updater once to the copy of every instance
\* registered for the caller's document and to no other copy
C13_ViewStateScope ==
  probe.stage = "out" =>
    IF probe.kind = "value"
    THEN /\ viewSettings[probe.caller].collapse = probe.val
         /\ \A j \in Inst \ {probe.caller} : viewSettings[j] = probe.pre[j]
    ELSE \A j \in Inst :
           viewSettings[j].collapse =
             IF j \in registered /\ FileOf(j) = FileOf(probe.caller)
             THEN ApplyOp(probe.op, probe.pre[j].collapse)
             ELSE probe.pre[j].collapse


(***************************************************************************)
(* Lifecycle of the registry                                               *)
(***************************************************************************)
\* the last lifecycle operation was op
LifeDid(op) == probe.stage = "life" /\ probe.op = op

\* C14: the plugin holds a registry for the document exactly when a view or
\* an embed is registered with one; the registry it holds is the one with the
\* registrations and has not fired its destruction callback, and every other
\* registry ever constructed has no registration left and has fired it.
C14_RegistryIffRegistered ==
  /\ pluginMap \in 0..Len(managers)
  /\ pluginMap # 0 <=> \E m \in 1..Len(managers) : Subscribers(managers, m) # {}
  /\ \A m \in 1..Len(managers) :
       /\ m = pluginMap <=> Subscribers(managers, m) # {}
       /\ managers[m].emptied <=> m # pluginMap

\* the last view was closed while an embed remains, and the registry stayed
C14_LastViewClosedEmbedRemains ==
  /\ LifeDid("onunload")
  /\ probe.inst \in Views
  /\ probe.viewSet = {probe.inst}
  /\ pluginMap # 0
  /\ pluginMap = probe.pluginMap
  /\ managers[pluginMap].viewSet = {}
  /\ managers[pluginMap].embedSet # {}

\* the registries constructed and not yet destroyed
LiveManagers == {m \in 1..Len(managers) : ~managers[m].emptied}

\* C15: at every moment at most one registry of the document is alive, also
\* when two renderings of it start together and both find none.
C15_OneRegistryPerDocument == Cardinality(LiveManagers) <= 1

\* the last operation registered an instance with, or resumed a registration
\* at, a registry that already had a Board
RegisteredOnExistingBoard ==
  /\ probe.stage = "life"
  /\ probe.op \in {"addEmbed", "addView", "migrate", "register", "lookup"}
  /\ probe.target # 0
  /\ probe.state.parsed

\* C16: a registration against a registry that already has a Board, whatever
\* flag and raw data it passes, leaves that registry's Board as it was.
C16_NoReparse ==
  RegisteredOnExistingBoard => managers[probe.target].state = probe.state

\* an embed asked for a parse of file content older than the Board in memory
C16_StaleDataNotParsed ==
  /\ RegisteredOnExistingBoard
  /\ probe.op = "register"
  /\ probe.inst \in Embeds
  /\ probe.shouldParse
  /\ probe.data # probe.state.content
  /\ tasks[probe.inst].pc = "ready"

\* the instances registered for the document, with whichever registry, that
\* have finished loading
RegisteredInstances ==
  {i \in LifeInst : /\ tasks[i].pc = "ready"
                    /\ \E m \in 1..Len(managers) : i \in Subscribers(managers, m)}

\* C17: when a mutation of the document's registry has completed, every view
\* and every embed registered for the document has been handed the Board the
\* mutated registry now holds.
C17_AllObserveMutation ==
  LifeDid("mutate") =>
    \A i \in RegisteredInstances : tasks[i].seen = managers[probe.target].state

(***************************************************************************)
(* Persistence                                                             *)
(***************************************************************************)
\* the file was written by the last operation
Wrote == probe.stage = "life" /\ probe.op # "none" /\ disk # probe.disk

EmbedEditAfterViewClosed ==
  /\ LifeDid("mutate")
  /\ probe.inst \in Embeds
  /\ probe.persist
  /\ ~probe.fails
  /\ managers[probe.target].hadView
  /\ probe.viewSet = {}

\* C19: an edit made through an embed after the view of the file was closed
\* is kept by the registry and is in the file.
C19_EmbedEditPersisted ==
  EmbedEditAfterViewClosed =>
    /\ managers[probe.target].state.content = nEdits
    /\ disk = managers[probe.target].state.content

\* the last operation was a persisting mutation whose serialization or write
\* failed
FailedSave ==
  /\ LifeDid("mutate")
  /\ probe.persist
  /\ probe.fails
  /\ probe.viewSet # {}

\* C20: after a failed save the registry holds the mutated Board with the
\* failure in its error list, every instance registered with it has been
\* handed that Board, and the file is as it was.
C20_FailedSaveKeepsMutation ==
  FailedSave =>
    /\ managers[probe.target].state.content = nEdits
    /\ managers[probe.target].state.content # probe.state.content
    /\ managers[probe.target].state.errors
    /\ \A i \in Subscribers(managers, probe.target) :
         tasks[i].seen = managers[probe.target].state
    /\ disk = probe.disk

\* a save failed while a view and an embed were registered
C20_FailedWithViewAndEmbed ==
  /\ FailedSave
  /\ managers[probe.target].viewSet # {}
  /\ managers[probe.target].embedSet # {}

(***************************************************************************)
(* Layout saves                                                            *)
(***************************************************************************)
\* C21: a setViewState call made on an embed-bound instance, with a value or
\* with an updater, requests no workspace layout save.
C21_EmbedNeverSavesLayout ==
  (probe.stage = "layout" /\ probe.n > 0 /\ EmbedBound(probe.caller)) =>
    probe.saves = probe.preSaves

(***************************************************************************)
(* Gestures                                                                *)
(***************************************************************************)
\* the gesture has ended
GestureEnded == probe.stage = "gesture" /\ probe.phase \in {"dropped", "cancelled"}

\* the pointer was released over a hitbox of a window other than the one the
\* drag began in
ReleasedOverOtherWindow ==
  /\ GestureEnded
  /\ probe.over # NoEntity
  /\ WinOfEntity(probe.winOf, probe.over) # probe.win

HtmlDropped ==
  /\ GestureEnded
  /\ probe.call = "drop"
  /\ probe.drag.scopeId = HtmlDnd

\* the instance named by the drag data of the gesture
HtmlInstance == getKanbanInstance(registered, probe.drag.viewId)

NewIds == {"N1", "N2"}

\* a board with the items created by the drop taken out again
WithoutNew(board) ==
  LET keep(e) == e.id \notin NewIds
      ls == SelectSeq(board.lanes, keep)
  IN [board EXCEPT
        !.lanes = [k \in 1..Len(ls) |-> [ls[k] EXCEPT !.children = SelectSeq(@, keep)]],
        !.errors = FALSE]

\* C25: an html drop leaves every instance's view state alone, leaves every
\* board but the one named by the drag data alone, changes nothing when that
\* board cannot be resolved, and in the resolved board only adds new items:
\* with them taken out again the board's lanes and items are what they were.
C25_HtmlDropOnlyInserts ==
  HtmlDropped =>
    /\ viewSettings = probe.preViews
    /\ HtmlInstance = NoInstance => boards = probe.preBoards
    /\ \A d \in Docs :
         /\ (HtmlInstance # NoInstance /\ d # FileOf(HtmlInstance))
              => boards[d] = probe.preBoards[d]
         /\ WithoutNew(boards[d]) = [probe.preBoards[d] EXCEPT !.errors = FALSE]

\* an html drop put two new items into the board named by its drag data while
\* the drop entity was registered by an instance of the other document
C25_HtmlItemsInserted ==
  /\ HtmlDropped
  /\ last.route = "html"
  /\ last.inserted
  /\ probe.drag.content = 2
  /\ boards[FileOf(HtmlInstance)] # probe.preBoards[FileOf(HtmlInstance)]
  /\ FileOf(InstanceOfEntity(last.drop)) # FileOf(HtmlInstance)

\* an html drop whose drag data names an instance that is gone
C25_HtmlBoardUnresolved ==
  /\ HtmlDropped
  /\ HtmlInstance = NoInstance

\* C26: a gesture that ends cancelled, the handler not invoked or invoked
\* without a drag entity or without a drop entity, leaves every board and
\* every instance's view state as they were when the drag began.
C26_CancelChangesNothing ==
  (probe.stage = "gesture" /\ probe.phase = "cancelled") =>
    /\ boards = probe.preBoards
    /\ viewSettings = probe.preViews

\* the handler was invoked with the drag entity of an html drag and no drop
\* entity, and returned at the entity guard
C26_HandlerWithoutDropEntity ==
  /\ probe.stage = "gesture"
  /\ probe.phase = "cancelled"
  /\ probe.call = "noDrop"
  /\ probe.drag.scopeId = HtmlDnd
  /\ last.route = "abort"
  /\ last.reason = "entities"

\* unmount(win) has just run on a mounted window
Unmounted == probe.stage = "window" /\ probe.op = "unmount"

\* documents that have an instance registered with their StateManager
DocumentsInUse == {FileOf(i) : i \in registered}

CrossItemInserted ==
  /\ CrossHandled
  /\ last.entityType = "item"
  /\ last.removed
  /\ last.inserted
  /\ Len(last.finalDropPath) = 2
  /\ Len(last.drag.path) = 2

\* the lane the item was inserted into and the lane it came from, as they
\* were when handleDrop was called
DestinationLane == last.pre[DestinationFile].lanes[last.finalDropPath[1] + 1]

SourceLane == last.pre[SourceFile].lanes[last.drag.path[1] + 1]

\* the items of the destination lane after the drop that carry the moved id
InsertedItems ==
  LET children == boards[DestinationFile].lanes[last.finalDropPath[1] + 1].children
  IN {children[k] : k \in {j \in 1..Len(children) : children[j].id = last.entityId}}

C27_LeftCompleteLane ==
  /\ CrossItemInserted
  /\ ~DestinationLane.complete
  /\ SourceLane.complete
  /\ getEntityFromPath(last.pre[SourceFile], last.drag.path).checked

\* a drop that moved an entity, within one board or from one board to another
DropMoved ==
  /\ last.route \in {"same", "cross"}
  /\ ~last.thrown
  /\ last.removed
  /\ last.inserted

\* the document of the drop target
DropFile == FileOf(InstanceOfEntity(last.drop))

\* a cross-board drop whose destination board appends new elements
Appends == last.route = "cross" /\ last.pre[DropFile].insertion \in {"append", "unset"}

\* C28: an entity dropped into a container becomes its first child on a
\* same-board drop and on a cross-board drop whose destination board does not
\* append, and its last child on a cross-board drop whose destination board
\* appends or has no setting; dropped between siblings, the final drop path is
\* the drop path.
C28_FinalDropPath ==
  DropMoved =>
    IF InDropArea(last.drag, last.drop)
    THEN LET before == last.pre[DropFile].lanes[last.drop.path[1] + 1].children
             children == boards[DropFile].lanes[last.drop.path[1] + 1].children
         IN /\ last.finalDropPath = last.drop.path \o <<IF Appends THEN Len(before) ELSE 0>>
            /\ Len(children) > 0
            /\ children[IF Appends THEN Len(children) ELSE 1].id = last.entityId
    ELSE last.finalDropPath = last.drop.path

\* an item of another board was dropped into a lane that already held items,
\* on a board without an insertion setting
C28_AppendedAfterLastChild ==
  /\ DropMoved
  /\ InDropArea(last.drag, last.drop)
  /\ Appends
  /\ Len(last.pre[DropFile].lanes[last.drop.path[1] + 1].children) > 0

\* an item was dropped into a lane of its own board that already held items
C28_SameBoardFirstChild ==
  /\ DropMoved
  /\ InDropArea(last.drag, last.drop)
  /\ last.route = "same"
  /\ Len(last.pre[DropFile].lanes[last.drop.path[1] + 1].children) > 1
  /\ last.drag.path[1] # last.drop.path[1]

\* a same-board drop that moved an entity
SameMoved ==
  /\ last.route = "same"
  /\ ~last.thrown
  /\ last.inserted

\* the 'sorted' marker of each lane of a board, by lane id
SortedMarkers(board) ==
  {<<board.lanes[l].id, board.lanes[l].sorted>> : l \in 1..Len(board.lanes)}

\* the lane an item was moved into, as it was before the move
MovedInto == last.pre[SourceFile].lanes[last.finalDropPath[1] + 1]

\* C29: after a same-board move of an item the lane it was moved into carries
\* no 'sorted' marker and every other lane carries the marker it carried
\* before; a same-board move of a lane changes no marker; the other
\* document's board is untouched.
C29_SortedClearedInDestination ==
  SameMoved =>
    /\ \A d \in Docs \ {SourceFile} : boards[d] = last.pre[d]
    /\ IF last.entityType = "item" /\ Len(last.finalDropPath) = 2
       THEN SortedMarkers(boards[SourceFile]) =
              (SortedMarkers(last.pre[SourceFile]) \ {<<MovedInto.id, TRUE>>})
                \cup {<<MovedInto.id, FALSE>>}
       ELSE SortedMarkers(boards[SourceFile]) = SortedMarkers(last.pre[SourceFile])

\* an item was moved into a lane of its board that carried the marker
C29_MovedIntoSortedLane ==
  /\ SameMoved
  /\ last.entityType = "item"
  /\ Len(last.finalDropPath) = 2
  /\ MovedInto.sorted

\* an item was moved out of a lane that carried the marker into another lane
\* of its board
C29_MovedOutOfSortedLane ==
  /\ SameMoved
  /\ last.entityType = "item"
  /\ Len(last.finalDropPath) = 2
  /\ last.drag.path[1] # last.finalDropPath[1]
  /\ last.pre[SourceFile].lanes[last.drag.path[1] + 1].sorted

\* C30: an embed handed a board with a non-empty error list renders the
\* error state, and no embed issues a setState while the board it is handed
\* has errors.
C30_NoMutationWhileErrors ==
  probe.stage = "render" =>
    /\ \A e \in Embeds : probe.saw[e] => probe.view[e] = "error"
    /\ probe.call.n > 0 => ~probe.call.inError

\* the embeds whose surface has just moved to window probe.win, which is
\* mounted, and which were held by another window before the move
MigratedEmbeds ==
  {i \in Inst : /\ ~IsView(i)
                /\ probe.winOf[i] = probe.win
                /\ i \in probe.preRegistered
                /\ i \in probe.loaded}

EmbedMigrated ==
  /\ probe.stage = "window"
  /\ probe.op = "migrate"
  /\ probe.regs[probe.win].mounted
  /\ MigratedEmbeds \ probe.held # {}

\* C31: after the surface of a registered embed has moved to a mounted
\* window, the embed is held by that window's registry, by no other
\* window's registry, and is registered with its document's StateManager.
C31_MigratedEmbedFollowsWindow ==
  EmbedMigrated =>
    \A i \in MigratedEmbeds \ probe.held :
      /\ i \in probe.regs[probe.win].embedMap
      /\ \A w \in Windows \ {probe.win} : i \notin getAllInstances(probe.regs, w)
      /\ i \in registered
      /\ FileOf(i) \in stateManagers

\* C32: an embed whose onunload has run, and on which neither onload nor
\* loadFile has been called since, is held by no window registry and by no
\* document's StateManager, whatever reads were pending when it was unloaded.
C32_UnloadedStaysUnregistered ==
  probe.stage = "load" =>
    \A e \in LoadEmbeds :
      (probe.embeds[e].unloaded /\ probe.embeds[e].calls = 0) => ~probe.embeds[e].inMap

\* C36: the onload and loadFile calls made on a Live Preview embed since its
\* last unload (or since its construction) lead to at most one call of
\* plugin.addEmbed, however many they are and however they overlap; and
\* onunload leaves the embed ready to load again (its loaded flag is reset),
\* so that a later call registers it once more.
C36_RegisteredAtMostOnce ==
  probe.stage = "load" =>
    \A e \in LoadEmbeds \cap LivePreviewEmbeds :
      /\ probe.embeds[e].freshAdds <= 1
      /\ (probe.embeds[e].unloaded /\ probe.embeds[e].calls = 0) => ~probe.embeds[e].loaded

\* a Live Preview embed that was unloaded, then loaded twice, and whose
\* reads have all resolved: it has been registered once by these calls
C36_LoadedTwiceAfterUnload ==
  /\ probe.stage = "load"
  /\ \E e \in LoadEmbeds \cap LivePreviewEmbeds :
       /\ probe.embeds[e].unloaded
       /\ probe.embeds[e].calls >= 2
       /\ probe.embeds[e].fresh = 0
       /\ probe.embeds[e].freshAdds = 1
       /\ probe.embeds[e].inMap


\* C33: every embed held in the window registry is stored under a key equal
\* to its current id, also after its file was renamed; so an embed that has
\* been unloaded (removeEmbed looked it up by its id) is held nowhere.
C33_KeyIsCurrentId ==
  probe.stage = "rename" =>
    /\ \A entry \in probe.embedMap : entry.key = CurrentId(entry.embed, probe.paths)
    /\ \A e \in RenameEmbeds \ probe.loaded :
         /\ e \notin probe.registered
         /\ \A entry \in probe.embedMap : entry.embed # e

C35_MigrationKeepsBoard ==
  (probe.stage = "life" /\ probe.op = "migrate" /\ probe.state.parsed) =>
    IF managers[pluginMap].state.parsed
    THEN managers[pluginMap].state.content = probe.state.content
    ELSE tasks[probe.inst].data = probe.state.content

\* a lane drop whose updaters all returned
LaneDropped ==
  /\ last.route \in {"same", "cross"}
  /\ ~last.thrown
  /\ last.entityType = "lane"
  /\ last.removed
  /\ last.inserted

\* C37: after a lane drop the 'list-collapse' setting written to a board
\* equals the acting instance's own 'list-collapse' array after the drop.
\* Within one board the acting instance is the one the drag started in; across
\* boards it is the source instance for the source board (as the removal
\* step left them) and the destination instance for the destination board.
C37_BoardCollapseIsInstanceCollapse ==
  LaneDropped =>
    IF last.route = "same"
    THEN boards[SourceFile].collapse = viewSettings[last.sourceInstance].collapse
    ELSE /\ last.mid[SourceFile].collapse = last.midViews[last.sourceInstance].collapse
         /\ boards[DestinationFile].collapse = viewSettings[last.destinationInstance].collapse

\* a lane moved from one board to another, each board written with the
\* array of its own instance, and the two arrays differ
C37_CrossLaneCollapseWritten ==
  /\ LaneDropped
  /\ last.route = "cross"
  /\ boards[DestinationFile].collapse # last.pre[DestinationFile].collapse
  /\ last.mid[SourceFile].collapse # last.pre[SourceFile].collapse

\* a lane moved within one board by an instance whose array differed from the
\* board setting before the drop
C37_SameLaneCollapseWritten ==
  /\ LaneDropped
  /\ last.route = "same"
  /\ boards[SourceFile].collapse # last.pre[SourceFile].collapse
  /\ last.pre[SourceFile].collapse # last.preViews[last.sourceInstance].collapse

\* the archive-trim effect has just run and set the state: the limit was a
\* number other than -1 and the archive was longer than it
TrimEffectRan ==
  /\ probe.stage = "render"
  /\ probe.call.n > 0
  /\ probe.call.cause = "effect"

\* C38: whenever 'max-archive-size' is a number other than -1, after the
\* archive-trim effect has run the archive holds at most that many entries,
\* for every limit including 0.
C38_ArchiveWithinLimit ==
  TrimEffectRan => probe.board.archive <= probe.max

C40_PopulateKeepsOwnValues ==
  probe.stage = "populate" =>
    /\ probe.op = "populate" =>
         /\ \A key \in ViewKeys : probe.pre[key].def => probe.own[key] = probe.pre[key]
         /\ \A key \in ViewKeys : probe.own[key].def
    /\ probe.op = "get" =>
         /\ probe.own[probe.key].def => probe.got = probe.own[probe.key]
         /\ ~probe.own[probe.key].def => probe.got = probe.settings[probe.key]

\* populateViewState called again on an instance whose own values differ
\* from what the board settings would give
C40_PopulatedAgain ==
  /\ probe.stage = "populate"
  /\ probe.op = "populate"
  /\ probe.populated >= 2
  /\ \A key \in ViewKeys :
       /\ probe.pre[key].def
       /\ probe.pre[key] # SettingOrDefault(probe.settings, key)
====
